---------------------------- MODULE Spec2Model ----------------------------
(***************************************************************************)
(* A model of the particle-grid transfer engine of MPM-NGF:                *)
(*   - GridState's packed `states` word (src/unnamed/part_000),            *)
(*   - the coloring (cut) test, the MLS quadratic kernel, the grid cache   *)
(*     and the block kernels of rasterize_optimized (src/src/transfer.cpp).*)
(*                                                                         *)
(* Conventions.                                                            *)
(*   A machine word is the set of its bit positions that hold 1, so that   *)
(*   &, |, ~, << and >> are modelled by what they do to bits and all 32    *)
(*   bits of a uint32 are representable.                                   *)
(*   Reals are exact rationals kept as integer numerators over a stated    *)
(*   denominator; floating-point rounding is not modelled.                 *)
(***************************************************************************)
EXTENDS Integers, Sequences, FiniteSets, Bags, TLC

VARIABLES
  cell,        \* GridState::states of the cell the setters are called on
  last_call,   \* the last GridState setter call: its name, argument and the word before it
  coloring,    \* one evaluation of the coloring test: grid word, particle word, outcome
  stencil,     \* one particle's kernel construction and its walk over the 27 stencil nodes
  lattice,     \* rasterize: the number of live blocks along x, y and z
  scene,       \* rasterize: whether rigid bodies are present, and gravity * delta_t
  particle,    \* rasterize: the particles, in the order of the sorted particle-id array
  grid,        \* rasterize: velocity_and_mass of every grid cell that is not all zero
  cache,       \* rasterize: the GridCache of every block closure in flight
  pc,          \* rasterize: where each block's closure stands
  color,       \* rasterize: the block colour being run (8 when all are through)
  phase,       \* rasterize: "start", "blocks" or "done"
  impulses,    \* rasterize: the apply_tmp_impulse calls made, as a bag
  writes,      \* rasterize: the (particle, node) pairs added to a cell's velocity_and_mass
  fcall,       \* one call of friction_project: its arguments and its result
  sorted,      \* resample: the particle positions the sort counted the particles at
  twin,        \* a second copy of a transfer's state, with a rigid body's sides swapped
  rigids,      \* the impulse protocol calls each rigid body has received in the phase
  plasticity_counter,  \* resample: MPM::plasticity_counter, from 0 at the start of the phase
  material     \* a particle of a material class and the last call made on it

p2gVars == <<lattice, scene, particle, grid, cache, pc, color, phase, impulses, writes>>
vars == <<cell, last_call, coloring, stencil, p2gVars, fcall, sorted, twin, rigids,
          plasticity_counter, material>>

\* what the actions of one part of the model leave alone
notGridState ==
  <<coloring, stencil, p2gVars, fcall, sorted, twin, rigids, material, plasticity_counter>>
notColoring ==
  <<cell, last_call, stencil, p2gVars, fcall, sorted, twin, rigids, material, plasticity_counter>>
notStencil ==
  <<cell, last_call, coloring, p2gVars, fcall, sorted, twin, rigids, material, plasticity_counter>>
notResample == <<cell, last_call, coloring, stencil, fcall, sorted, twin, material>>
notTransfer == <<notResample, plasticity_counter>>
notP2G == <<notTransfer, rigids>>
notMaterial ==
  <<cell, last_call, coloring, stencil, p2gVars, fcall, sorted, twin, rigids, plasticity_counter>>
notFriction ==
  <<cell, last_call, coloring, stencil, p2gVars, sorted, twin, rigids, material, plasticity_counter>>

---------------------------------------------------------------------------
(* Machine words as sets of bit positions                                  *)

RECURSIVE Pow2(_)
Pow2(n) == IF n = 0 THEN 1 ELSE 2 * Pow2(n - 1)

\* the word holding the non-negative integer n (n < 2^31)
BitsOf(n) == {i \in 0..30 : (n \div Pow2(i)) % 2 = 1}

RECURSIVE ValueOf(_)
\* the integer a word holds (bit 31 clear)
ValueOf(w) ==
  IF w = {} THEN 0
  ELSE LET i == CHOOSE j \in w : TRUE IN Pow2(i) + ValueOf(w \ {i})

BitAnd(a, b) == a \cap b
BitOr(a, b) == a \cup b
Shr(w, k) == {i - k : i \in {j \in w : j >= k}}

---------------------------------------------------------------------------
(* GridState: the packed states word                                       *)

max_num_rigid_bodies == 12
total_bits == 32
tag_bits == max_num_rigid_bodies * 2
id_bits == total_bits - tag_bits

\* a 32-bit left shift drops the bits shifted out of the word
Shl32(w, k) == {i + k : i \in w} \cap (0..(total_bits - 1))
Not32(w) == (0..(total_bits - 1)) \ w

tag_mask == BitsOf(Pow2(tag_bits) - 1)
id_mask == Shl32(BitsOf(Pow2(id_bits) - 1), tag_bits)

get_rigid_body_id(states) == ValueOf(Shr(states, tag_bits)) - 1

set_rigid_body_id_noinc(states, id) ==
  BitOr(BitAnd(states, Not32(id_mask)), Shl32(BitsOf(id), tag_bits))

set_rigid_body_id(states, id) ==
  BitOr(BitAnd(states, Not32(id_mask)), Shl32(BitsOf(id + 1), tag_bits))

get_states(states) == BitAnd(states, tag_mask)

set_states(states, new_states) ==
  BitOr(BitAnd(states, Not32(tag_mask)), new_states)

\* the two tag bits of rigid body r holding the value f (bit 2r: side, bit 2r+1: active)
TagField(r, f) == {2 * r + i : i \in BitsOf(f)}

\* arguments the setters are called with
RigidIdArgs == (-1)..(max_num_rigid_bodies - 1)
StatesArgs ==
  {TagField(r, f) : r \in {0, max_num_rigid_bodies - 1}, f \in 0..3}
    \cup {tag_mask, {tag_bits}, {total_bits - 1}, {tag_bits - 1, tag_bits},
          0..(total_bits - 1)}

NoCall == [op |-> "none", arg |-> 0, before |-> {}]

Call_set_rigid_body_id(id) ==
  /\ cell' = set_rigid_body_id(cell, id)
  /\ last_call' = [op |-> "set_rigid_body_id", arg |-> id, before |-> cell]
  /\ UNCHANGED notGridState

Call_set_states(s) ==
  /\ cell' = set_states(cell, s)
  /\ last_call' = [op |-> "set_states", arg |-> s, before |-> cell]
  /\ UNCHANGED notGridState

---------------------------------------------------------------------------
(* The coloring test of rasterize and resample                             *)

\* bit 2r+1 of every rigid body r: the "active" bits
state_mask == {2 * r + 1 : r \in 0..(max_num_rigid_bodies - 1)}

\* the mask taken from the grid's active bits alone
ColoringMask_gridonly(grid_state, particle_state) ==
  Shr(BitAnd(grid_state, state_mask), 1)

ColoringMask(grid_state, particle_state) ==
  Shr(BitAnd(BitAnd(grid_state, particle_state), state_mask), 1)

IsCut_noshift(grid_state, particle_state) ==
  LET mask == BitAnd(BitAnd(grid_state, particle_state), state_mask)
  IN  BitAnd(grid_state, mask) # BitAnd(particle_state, mask)

IsCut(grid_state, particle_state) ==
  LET mask == ColoringMask(grid_state, particle_state)
  IN  BitAnd(grid_state, mask) # BitAnd(particle_state, mask)

\* number of rigid bodies whose tags may be non-zero in a sampled word
TaggedBodies == 2

\* the words whose non-zero tags lie in the bodies first..first+TaggedBodies-1
RECURSIVE TagWordsFrom(_, _)
TagWordsFrom(first, n) ==
  IF n = 0 THEN {{}}
  ELSE {TagField(first, f) \cup w : f \in 0..3, w \in TagWordsFrom(first + 1, n - 1)}

NoColoring == [g |-> {}, p |-> {}, out |-> "idle"]

EvalColoring ==
  /\ coloring.out = "input"
  /\ coloring' = [coloring EXCEPT !.out = IF IsCut(coloring.g, coloring.p)
                                           THEN "cut" ELSE "same"]
  /\ UNCHANGED notColoring

---------------------------------------------------------------------------
(* The grid cache's index arithmetic and the stencil tables                *)

\* SparseMask::block_xbits, block_ybits, block_zbits: a block is 4 x 4 x 4 cells
block_xbits == 2
block_ybits == 2
block_zbits == 2

\* (1 << block_xbits + 2): the shift taking the sum as its count
scratch_x_size_shiftsum == Pow2(block_xbits + 2)

scratch_x_size == Pow2(block_xbits) + 2
scratch_y_size == Pow2(block_ybits) + 2
scratch_z_size == Pow2(block_zbits) + 2
scratch_size == scratch_x_size * scratch_y_size * scratch_z_size
num_nodes == 27

kernel_linearized(x) ==
  (x \div 9) * scratch_y_size * scratch_z_size + ((x \div 3) % 3) * scratch_z_size + (x % 3)

\* the offset taken with the strides of the block instead of the scratch
linearized_offset_blockstride(x, y, z) ==
  x * Pow2(block_ybits) * Pow2(block_zbits) + y * Pow2(block_zbits) + z

linearized_offset(x, y, z) == x * scratch_y_size * scratch_z_size + y * scratch_z_size + z

make_float3(a, b, c) == <<a, b, c, 0>>

\* a table with a transposed entry: (0, 1, 0) where (0, 0, 1) belongs
grid_pos_offset__transposed ==
  << make_float3(0, 0, 0), make_float3(0, 1, 0), make_float3(0, 0, 2),
     make_float3(0, 1, 0), make_float3(0, 1, 1), make_float3(0, 1, 2),
     make_float3(0, 2, 0), make_float3(0, 2, 1), make_float3(0, 2, 2),
     make_float3(1, 0, 0), make_float3(1, 0, 1), make_float3(1, 0, 2),
     make_float3(1, 1, 0), make_float3(1, 1, 1), make_float3(1, 1, 2),
     make_float3(1, 2, 0), make_float3(1, 2, 1), make_float3(1, 2, 2),
     make_float3(2, 0, 0), make_float3(2, 0, 1), make_float3(2, 0, 2),
     make_float3(2, 1, 0), make_float3(2, 1, 1), make_float3(2, 1, 2),
     make_float3(2, 2, 0), make_float3(2, 2, 1), make_float3(2, 2, 2) >>

\* the SIMD table, indexed from 1 here: entry node_id + 1 is grid_pos_offset_[node_id]
grid_pos_offset_ ==
  << make_float3(0, 0, 0), make_float3(0, 0, 1), make_float3(0, 0, 2),
     make_float3(0, 1, 0), make_float3(0, 1, 1), make_float3(0, 1, 2),
     make_float3(0, 2, 0), make_float3(0, 2, 1), make_float3(0, 2, 2),
     make_float3(1, 0, 0), make_float3(1, 0, 1), make_float3(1, 0, 2),
     make_float3(1, 1, 0), make_float3(1, 1, 1), make_float3(1, 1, 2),
     make_float3(1, 2, 0), make_float3(1, 2, 1), make_float3(1, 2, 2),
     make_float3(2, 0, 0), make_float3(2, 0, 1), make_float3(2, 0, 2),
     make_float3(2, 1, 0), make_float3(2, 1, 1), make_float3(2, 1, 2),
     make_float3(2, 2, 0), make_float3(2, 2, 1), make_float3(2, 2, 2) >>

\* the Vector3f table, indexed from 1 here
grid_pos_offset ==
  << <<0, 0, 0>>, <<0, 0, 1>>, <<0, 0, 2>>,
     <<0, 1, 0>>, <<0, 1, 1>>, <<0, 1, 2>>,
     <<0, 2, 0>>, <<0, 2, 1>>, <<0, 2, 2>>,
     <<1, 0, 0>>, <<1, 0, 1>>, <<1, 0, 2>>,
     <<1, 1, 0>>, <<1, 1, 1>>, <<1, 1, 2>>,
     <<1, 2, 0>>, <<1, 2, 1>>, <<1, 2, 2>>,
     <<2, 0, 0>>, <<2, 0, 1>>, <<2, 0, 2>>,
     <<2, 1, 0>>, <<2, 1, 1>>, <<2, 1, 2>>,
     <<2, 2, 0>>, <<2, 2, 1>>, <<2, 2, 2>> >>

---------------------------------------------------------------------------
(* MLSMPMFastKernel32                                                      *)
(*                                                                         *)
(* Positions are sampled at multiples of 1/(2*PosDenom) of a cell and kept *)
(* as numerators over PosUnit = 2*PosDenom.  A per-axis weight is kept as  *)
(* a numerator over WeightUnit = 8*PosDenom^2, a stencil weight over       *)
(* WeightUnit^3.                                                           *)

PosDenom == 2
PosUnit == 2 * PosDenom
WeightUnit == 8 * PosDenom * PosDenom

\* the float4 literals of the constructor, as numerators over 2, 2, 2 and 8
KernelLaneOffset == [l \in 0..3 |-> <<-1, 1, 3, 0>>[l + 1]]
KernelQuadratic == [l \in 0..3 |-> <<1, -2, 1, 0>>[l + 1]]
KernelLinear == [l \in 0..3 |-> <<-3, 0, 3, 0>>[l + 1]]
KernelConstant == [l \in 0..3 |-> <<9, 6, 9, 0>>[l + 1]]

\* one axis with the constant lanes 1.125 and 0.75 exchanged
w_cache_axis_swapped(pos) ==
  LET p_fract == pos - PosDenom
  IN  [l \in 0..3 |->
        LET t == p_fract - PosDenom * KernelLaneOffset[l]
            tt == t * t
        IN  KernelQuadratic[l] * tt
              + (KernelLinear[l] * PosUnit * t
                   + <<6, 9, 6, 0>>[l + 1] * PosDenom * PosDenom)]

\* w_cache[k] for the axis whose coordinate is pos (a numerator over PosUnit):
\* fmadd(c2, t*t, fmadd(c1, t, c0)) in the four lanes
w_cache_axis(pos) ==
  LET p_fract == pos - PosDenom
  IN  [l \in 0..3 |->
        LET t == p_fract - PosDenom * KernelLaneOffset[l]
            tt == t * t
        IN  KernelQuadratic[l] * tt
              + (KernelLinear[l] * PosUnit * t
                   + KernelConstant[l] * PosDenom * PosDenom)]

MLSMPMFastKernel32_w_cache(pos) == [k \in 0..2 |-> w_cache_axis(pos[k + 1])]

\* kernels[i][j] = set1(w_cache[0][i] * w_cache[1][j]) * w_cache[2], lane by lane
MLSMPMFastKernel32(pos) ==
  LET w_cache == MLSMPMFastKernel32_w_cache(pos)
  IN  [i \in 0..2 |-> [j \in 0..2 |-> [l \in 0..3 |->
        (w_cache[0][i] * w_cache[1][j]) * w_cache[2][l]]]]

\* the offsets from the base cell a particle can have: [0.5, 1.5) per axis
KernelPositions ==
  {<<x, y, z>> : x \in PosDenom..(3 * PosDenom - 1),
                 y \in PosDenom..(3 * PosDenom - 1),
                 z \in PosDenom..(3 * PosDenom - 1)}

NoStencil == [stage |-> "idle"]

BuildKernel ==
  /\ stencil.stage = "input"
  /\ stencil' = [stage |-> "loop", pos |-> stencil.pos,
                 w_cache |-> MLSMPMFastKernel32_w_cache(stencil.pos),
                 kernels |-> MLSMPMFastKernel32(stencil.pos),
                 node_id |-> 0, visited |-> -1,
                 offset_simd |-> <<>>, offset_vec |-> <<>>, weight |-> 0, linear |-> 0]
  /\ UNCHANGED notStencil

\* int(v) of a real v = n / d (d > 0): the fraction is dropped, towards zero
TruncDiv(n, d) == IF n >= 0 THEN n \div d ELSE -((-n) \div d)

\* get_stencil_start(x) = int(x - 0.5f), x a numerator over PosUnit
get_stencil_start(x) == TruncDiv(x - PosDenom, PosUnit)

\* one call of get_stencil_start on a coordinate of a clamped position
Call_get_stencil_start ==
  /\ stencil.stage = "coordinate"
  /\ stencil' = [stencil EXCEPT !.stage = "start", !.start = get_stencil_start(stencil.x)]
  /\ UNCHANGED notStencil

\* one expansion of LOOP(node_id): the position offset, the weight and the scratch
\* cell the iteration uses (block_op_rigid reads grid_pos_offset for its grid_pos)
LoopNode ==
  /\ stencil.stage = "loop"
  /\ stencil.node_id < num_nodes
  /\ LET node_id == stencil.node_id
     IN  stencil' = [stencil EXCEPT
           !.visited = node_id,
           !.offset_simd = grid_pos_offset_[node_id + 1],
           !.offset_vec = grid_pos_offset[node_id + 1],
           !.weight = stencil.kernels[node_id \div 9][(node_id \div 3) % 3][node_id % 3],
           !.linear = kernel_linearized(node_id),
           !.node_id = node_id + 1]
  /\ UNCHANGED notStencil

---------------------------------------------------------------------------
(* The sparse grid, the blocks and the scene of a rasterize phase          *)

Zero3 == <<0, 0, 0>>
Zero4 == <<0, 0, 0, 0>>
ZeroMatrix == <<Zero3, Zero3, Zero3>>
Add3(a, b) == <<a[1] + b[1], a[2] + b[2], a[3] + b[3]>>
Add4(a, b) == <<a[1] + b[1], a[2] + b[2], a[3] + b[3], a[4] + b[4]>>
Scale3(k, a) == <<k * a[1], k * a[2], k * a[3]>>
\* a matrix is the sequence of its columns: m[i] is column i, as Matrix::operator[]
MatVec(m, v) == Add3(Scale3(v[1], m[1]), Add3(Scale3(v[2], m[2]), Scale3(v[3], m[3])))

elements_per_block == Pow2(block_xbits + block_ybits + block_zbits)

\* a block is named by its block coordinates; its offset decodes to its first cell
LinearToCoord(block) ==
  <<block[1] * Pow2(block_xbits), block[2] * Pow2(block_ybits), block[3] * Pow2(block_zbits)>>

Blocks(lat) == (0..(lat[1] - 1)) \X (0..(lat[2] - 1)) \X (0..(lat[3] - 1))

\* the position of a block in block_meta
BlockIndex(lat, block) == (block[1] * lat[2] + block[2]) * lat[3] + block[3]

\* the colour of a block: its block coordinates modulo 2 per axis
BlockColor(block) == (block[1] % 2) * 4 + (block[2] % 2) * 2 + (block[3] % 2)

spgrid_block_linear_to_vector(elem) ==
  << elem \div Pow2(block_zbits + block_ybits),
     (elem \div Pow2(block_zbits)) % Pow2(block_ybits),
     elem % Pow2(block_zbits) >>

spgrid_block_to_grid_cache_block(elem) ==
  linearized_offset(elem \div Pow2(block_zbits + block_ybits),
                    (elem \div Pow2(block_zbits)) % Pow2(block_ybits),
                    elem % Pow2(block_zbits))

\* blocked[i][j][k] is linear[i * scratch_y_size * scratch_z_size + j * scratch_z_size + k]:
\* the coordinates of the scratch cell at a linear index
ScratchCoord(idx) ==
  << idx \div (scratch_y_size * scratch_z_size),
     (idx \div scratch_z_size) % scratch_y_size,
     idx % scratch_z_size >>

\* the grid cells a block's GridCache loads and writes back
Footprint(block) ==
  {Add3(LinearToCoord(block), <<i, j, k>>) :
     i \in 0..(scratch_x_size - 1), j \in 0..(scratch_y_size - 1),
     k \in 0..(scratch_z_size - 1)}

\* the block a cell lies in and its index within the block
BlockOf(c) ==
  <<c[1] \div Pow2(block_xbits), c[2] \div Pow2(block_ybits), c[3] \div Pow2(block_zbits)>>
ElemOf(c) ==
  ((c[1] % Pow2(block_xbits)) * Pow2(block_ybits) + (c[2] % Pow2(block_ybits)))
    * Pow2(block_zbits) + (c[3] % Pow2(block_zbits))

(* The scene with rigid bodies: body 0 is a plate between the cell planes   *)
(* x = 3 and x = 4, body 1 a plate below the plane x = 12.  The cells next  *)
(* to a plate carry its tags; the plane x = 5 carries tags and no body id.  *)
Rigids(sc) == IF sc.rigid THEN {0, 1} ELSE {}

PlaneTags(x) ==
  IF x \in {2, 3} THEN TagField(0, 2)
  ELSE IF x \in {4, 5} THEN TagField(0, 3)
  ELSE IF x \in {12, 13} THEN TagField(1, 3)
  ELSE {}

PlaneRigidId(x) ==
  IF x \in {2, 3, 4} THEN 0
  ELSE IF x \in {12, 13} THEN 1
  ELSE -1

\* RigidBody::frictions of body 0 and body 1, entry side + 1 for side bit side:
\* body 0 is frictionless on side 0 and sticky on side 1, body 1 slips on both
RigidFrictions ==
  << <<[n |-> 0, d |-> 1], [n |-> -1, d |-> 1]>>,
     <<[n |-> -2, d |-> 1], [n |-> -2, d |-> 1]>> >>

\* the rigid bodies translate: get_velocity_at is the body's velocity at every point
RigidVelocities == << Zero3, <<0, 0, 1>> >>

get_velocity_at(sc, r, grid_pos) == sc.velocity[r + 1]

\* a scene: whether it has rigid bodies, gravity * delta_t, and GridState::states
\* of the cells of each plane x as the two setters leave it (0 where never set)
Scene(rigid, gravity) ==
  [rigid |-> rigid, gravity |-> gravity,
   states |-> [x \in 0..13 |->
                 IF rigid THEN set_rigid_body_id(set_states({}, PlaneTags(x)), PlaneRigidId(x))
                 ELSE {}],
   frictions |-> RigidFrictions, velocity |-> RigidVelocities]

GridWord(sc, c) == IF c[1] \in DOMAIN sc.states THEN sc.states[c[1]] ELSE {}

\* rigid_page_map: the blocks holding at least one cell with rigid tags
Test_Page(sc, block) ==
  \E e \in 0..(elements_per_block - 1) :
    get_states(GridWord(sc, Add3(LinearToCoord(block), spgrid_block_linear_to_vector(e)))) # {}

get_rigid_body_ptr(sc, id) == IF id \in Rigids(sc) THEN id ELSE -1

GridVM(g, c) == IF c \in DOMAIN g THEN g[c] ELSE Zero4

---------------------------------------------------------------------------
(* Particles                                                               *)

inv_delta_x == 1
\* Kernel::inv_D() of the quadratic kernel
inv_D == 4 * inv_delta_x * inv_delta_x

\* a grid value is a numerator over VMUnit
VMUnit == WeightUnit * WeightUnit * WeightUnit * PosUnit * PosUnit

Lo == PosDenom          \* offset 0.5 from the base cell
Hi == 3 * PosDenom - 1  \* the largest sampled offset below 1.5

\* the particles a scene is populated from, in the order of the sort: by block,
\* then by cell index within the block.  rel is the offset from the base cell,
\* force is delta_t * calculate_force(), boundary_distance a numerator over
\* DistUnit.
ParticleChoices ==
  << [cell |-> <<1, 1, 1>>, rel |-> <<Lo, Lo, Lo>>, mass |-> 1, velocity |-> <<1, 0, 0>>,
      apic_b |-> ZeroMatrix, apic_c |-> ZeroMatrix, force |-> ZeroMatrix,
      states |-> {}, is_rigid |-> FALSE,
      near_boundary |-> FALSE, boundary_normal |-> [n |-> <<0, 0, 0>>, d |-> 1],
      boundary_distance |-> 0, sticky |-> FALSE],
     [cell |-> <<3, 1, 1>>, rel |-> <<Lo + 1, Lo, Hi>>, mass |-> 2, velocity |-> <<0, 1, -1>>,
      apic_b |-> <<<<1, 0, 0>>, <<0, -1, 2>>, <<0, 0, 0>>>>, apic_c |-> ZeroMatrix,
      force |-> ZeroMatrix, states |-> TagField(0, 2), is_rigid |-> FALSE,
      near_boundary |-> TRUE, boundary_normal |-> [n |-> <<-1, 0, 0>>, d |-> 1],
      boundary_distance |-> -2, sticky |-> TRUE],
     [cell |-> <<3, 3, 3>>, rel |-> <<Hi, Hi, Lo + 1>>, mass |-> 1, velocity |-> <<-1, 2, 0>>,
      apic_b |-> <<<<0, 1, 0>>, <<0, 0, 0>>, <<1, 0, -1>>>>,
      apic_c |-> <<<<1, 0, 0>>, <<0, 0, 1>>, <<0, -1, 0>>>>,
      force |-> ZeroMatrix, states |-> {}, is_rigid |-> FALSE,
      near_boundary |-> FALSE, boundary_normal |-> [n |-> <<0, 0, 0>>, d |-> 1],
      boundary_distance |-> 0, sticky |-> FALSE],
     [cell |-> <<4, 1, 1>>, rel |-> <<Lo, Lo + 1, Lo>>, mass |-> 1, velocity |-> <<1, 1, 1>>,
      apic_b |-> ZeroMatrix, apic_c |-> ZeroMatrix, force |-> ZeroMatrix,
      states |-> TagField(0, 2), is_rigid |-> TRUE,
      near_boundary |-> TRUE, boundary_normal |-> [n |-> <<1, 0, 0>>, d |-> 1],
      boundary_distance |-> -2, sticky |-> FALSE],
     [cell |-> <<4, 3, 3>>, rel |-> <<Lo, Hi, Lo + 1>>, mass |-> 1, velocity |-> <<0, 0, 2>>,
      apic_b |-> ZeroMatrix, apic_c |-> <<<<0, 1, 0>>, <<1, 0, 0>>, <<0, 0, 1>>>>,
      force |-> ZeroMatrix, states |-> TagField(0, 3), is_rigid |-> FALSE,
      near_boundary |-> TRUE, boundary_normal |-> [n |-> <<1, 0, 0>>, d |-> 1],
      boundary_distance |-> -8, sticky |-> FALSE],
     [cell |-> <<9, 0, 2>>, rel |-> <<Lo + 1, Lo, Lo>>, mass |-> 1, velocity |-> <<0, 0, 1>>,
      apic_b |-> ZeroMatrix, apic_c |-> ZeroMatrix,
      force |-> <<<<1, 0, 0>>, <<0, 1, 0>>, <<0, 1, 1>>>>,
      states |-> {}, is_rigid |-> FALSE,
      near_boundary |-> FALSE, boundary_normal |-> [n |-> <<0, 0, 0>>, d |-> 1],
      boundary_distance |-> 0, sticky |-> FALSE],
     [cell |-> <<11, 2, 2>>, rel |-> <<Hi, Lo, Lo + 1>>, mass |-> 1, velocity |-> <<2, 0, 0>>,
      apic_b |-> <<<<0, 0, 1>>, <<0, 0, 0>>, <<0, 0, 0>>>>, apic_c |-> ZeroMatrix,
      force |-> ZeroMatrix, states |-> TagField(1, 2), is_rigid |-> FALSE,
      near_boundary |-> TRUE, boundary_normal |-> [n |-> <<-1, 0, 0>>, d |-> 1],
      boundary_distance |-> -4, sticky |-> FALSE] >>

\* the particle a choice stands for in a scene: without rigid bodies no particle
\* carries tags
MakeParticle(sc, ch) ==
  [pos |-> Add3(Scale3(PosUnit, ch.cell), ch.rel),
   mass |-> ch.mass, velocity |-> ch.velocity,
   apic_b |-> ch.apic_b, apic_c |-> ch.apic_c, force |-> ch.force,
   states |-> IF sc.rigid THEN ch.states ELSE {},
   is_rigid |-> ch.is_rigid,
   near_boundary |-> sc.rigid /\ ch.near_boundary,
   boundary_normal |-> ch.boundary_normal, boundary_distance |-> ch.boundary_distance]

\* the base cell of a particle: floor(pos - 0.5) per axis
BaseCell(p) ==
  << (p.pos[1] - PosDenom) \div PosUnit, (p.pos[2] - PosDenom) \div PosUnit,
     (p.pos[3] - PosDenom) \div PosUnit >>

\* the sort's results: the per-cell particle_count and the per-block particle_offset
particle_count(ps, c) == Cardinality({i \in DOMAIN ps : BaseCell(ps[i]) = c})
particle_offset(lat, ps, block) ==
  Cardinality({i \in DOMAIN ps :
                 BlockIndex(lat, BlockOf(BaseCell(ps[i]))) < BlockIndex(lat, block)})

\* boundary_distance is a numerator over DistUnit, in units of delta_x
DistUnit == 20

NumParticles == 2
NumThreads == 2
NumBlocksX == 3
NumBlocksCube == 3

Scenes == {Scene(FALSE, Zero3), Scene(FALSE, <<0, -1, 0>>), Scene(TRUE, Zero3)}

---------------------------------------------------------------------------
(* friction_project                                                        *)
(* A real is a fraction of integers: a normal is [n, d] for n / d, a       *)
(* friction coefficient [n, d] for n / d, the result [num, den] for        *)
(* num / den.  The sampled arguments have a rational tangential speed, and *)
(* 1e-30 is below every sampled positive speed.                            *)

Dot3(a, b) == a[1] * b[1] + a[2] * b[2] + a[3] * b[3]
Max(a, b) == IF a >= b THEN a ELSE b
Min(a, b) == IF a <= b THEN a ELSE b

RECURSIVE SqrtBetween(_, _, _)
\* the largest k in lo..hi with k * k <= n
SqrtBetween(n, lo, hi) ==
  IF lo >= hi THEN lo
  ELSE LET mid == (lo + hi + 1) \div 2
       IN  IF mid * mid <= n THEN SqrtBetween(n, mid, hi) ELSE SqrtBetween(n, lo, mid - 1)

SqrtFloor(n) == SqrtBetween(n, 0, Min(n, 40000))
IsSquare(n) == SqrtFloor(n) * SqrtFloor(n) = n

\* friction_project with the slip test friction < -2
friction_project_strictslip(velocity, base_velocity, normal, friction) ==
  LET relative_vel == Add3(velocity, Scale3(-1, base_velocity))
      d == normal.d
  IN  IF friction.n = -friction.d THEN [num |-> base_velocity, den |-> 1]
      ELSE
        LET slip == friction.n < -2 * friction.d
            fr == IF slip THEN [n |-> -friction.n - 2 * friction.d, d |-> friction.d]
                  ELSE friction
            normal_norm == Dot3(normal.n, relative_vel)
            tangential_relative_vel ==
              Add3(Scale3(d * d, relative_vel), Scale3(-normal_norm, normal.n))
            tangential_norm == SqrtFloor(Dot3(tangential_relative_vel, tangential_relative_vel))
            scale_num == Max(tangential_norm * fr.d + Min(normal_norm, 0) * fr.n * d, 0)
            normal_part == Max(0, normal_norm * (IF slip THEN 0 ELSE 1))
        IN  IF tangential_norm = 0
            THEN [num |-> Add3(Scale3(normal_part, normal.n), Scale3(d * d, base_velocity)),
                  den |-> d * d]
            ELSE [num |-> Add3(Scale3(scale_num, tangential_relative_vel),
                          Add3(Scale3(normal_part * fr.d * tangential_norm, normal.n),
                               Scale3(fr.d * tangential_norm * d * d, base_velocity))),
                  den |-> fr.d * tangential_norm * d * d]

\* friction_project with the normal part normal_norm * !slip, its max with 0 lost
friction_project_nomax(velocity, base_velocity, normal, friction) ==
  LET relative_vel == Add3(velocity, Scale3(-1, base_velocity))
      d == normal.d
  IN  IF friction.n = -friction.d THEN [num |-> base_velocity, den |-> 1]
      ELSE
        LET slip == friction.n <= -2 * friction.d
            fr == IF slip THEN [n |-> -friction.n - 2 * friction.d, d |-> friction.d]
                  ELSE friction
            normal_norm == Dot3(normal.n, relative_vel)
            tangential_relative_vel ==
              Add3(Scale3(d * d, relative_vel), Scale3(-normal_norm, normal.n))
            tangential_norm == SqrtFloor(Dot3(tangential_relative_vel, tangential_relative_vel))
            scale_num == Max(tangential_norm * fr.d + Min(normal_norm, 0) * fr.n * d, 0)
            normal_part == normal_norm * (IF slip THEN 0 ELSE 1)
        IN  IF tangential_norm = 0
            THEN [num |-> Add3(Scale3(normal_part, normal.n), Scale3(d * d, base_velocity)),
                  den |-> d * d]
            ELSE [num |-> Add3(Scale3(scale_num, tangential_relative_vel),
                          Add3(Scale3(normal_part * fr.d * tangential_norm, normal.n),
                               Scale3(fr.d * tangential_norm * d * d, base_velocity))),
                  den |-> fr.d * tangential_norm * d * d]

\* with D = normal.d: normal_norm is a numerator over D, tangential_relative_vel
\* and tangential_norm over D^2, scale_num over D^2 * fr.d; tangential_scale is
\* scale_num / (fr.d * tangential_norm), and with tangential_norm = 0 the
\* tangential part is tangential_scale times the zero vector
friction_project(velocity, base_velocity, normal, friction) ==
  LET relative_vel == Add3(velocity, Scale3(-1, base_velocity))
      d == normal.d
  IN  \* sticky
      IF friction.n = -friction.d THEN [num |-> base_velocity, den |-> 1]
      ELSE
        LET \* slip and with friction
            slip == friction.n <= -2 * friction.d
            fr == IF slip THEN [n |-> -friction.n - 2 * friction.d, d |-> friction.d]
                  ELSE friction
            \* slip and separate
            normal_norm == Dot3(normal.n, relative_vel)
            tangential_relative_vel ==
              Add3(Scale3(d * d, relative_vel), Scale3(-normal_norm, normal.n))
            tangential_norm == SqrtFloor(Dot3(tangential_relative_vel, tangential_relative_vel))
            scale_num == Max(tangential_norm * fr.d + Min(normal_norm, 0) * fr.n * d, 0)
            normal_part == Max(0, normal_norm * (IF slip THEN 0 ELSE 1))
        IN  IF tangential_norm = 0
            THEN [num |-> Add3(Scale3(normal_part, normal.n), Scale3(d * d, base_velocity)),
                  den |-> d * d]
            ELSE [num |-> Add3(Scale3(scale_num, tangential_relative_vel),
                          Add3(Scale3(normal_part * fr.d * tangential_norm, normal.n),
                               Scale3(fr.d * tangential_norm * d * d, base_velocity))),
                  den |-> fr.d * tangential_norm * d * d]

VelMax == 1

\* the sampled arguments: unit normals, friction coefficients on both sides of
\* -2, -1 and 0, velocities on an integer lattice
UnitNormals ==
  { [n |-> <<1, 0, 0>>, d |-> 1], [n |-> <<0, 0, -1>>, d |-> 1],
    [n |-> <<3, 4, 0>>, d |-> 5], [n |-> <<0, -3, 4>>, d |-> 5] }
FrictionCoefficients ==
  { [n |-> -3, d |-> 1], [n |-> -5, d |-> 2], [n |-> -2, d |-> 1], [n |-> -3, d |-> 2],
    [n |-> -1, d |-> 1], [n |-> -1, d |-> 2], [n |-> 0, d |-> 1], [n |-> 1, d |-> 2],
    [n |-> 2, d |-> 1] }
Velocities == ((-VelMax)..VelMax) \X ((-VelMax)..VelMax) \X ((-VelMax)..VelMax)
BaseVelocities == {<<0, 0, 0>>, <<1, 0, 0>>, <<0, -1, 2>>, <<4, -3, 1>>}

\* the tangential speed of the arguments is rational
RationalTangentialSpeed(velocity, base_velocity, normal) ==
  LET relative_vel == Add3(velocity, Scale3(-1, base_velocity))
      t == Add3(Scale3(normal.d * normal.d, relative_vel),
                Scale3(-Dot3(normal.n, relative_vel), normal.n))
  IN  IsSquare(Dot3(t, t))

NoFriction == [stage |-> "idle"]

\* no particle of a material class
NoMaterial == [particle |-> [class |-> "none"]]

Call_friction_project ==
  /\ fcall.stage = "input"
  /\ fcall' = [fcall EXCEPT
       !.stage = "returned",
       !.result = friction_project(fcall.velocity, fcall.base_velocity,
                                   fcall.normal, fcall.friction)]
  /\ UNCHANGED notFriction

\* the parts of the model a specification of another part leaves idle
IdleRest == fcall = NoFriction /\ material = NoMaterial /\ sorted = <<>> /\ twin = [transfer |-> "none"]

---------------------------------------------------------------------------
(* GridCache                                                               *)

\* a constructor that leaves the scratch zeroed instead of loading it
GridCache_load_zeroed(sc, g, block, v_and_m_only) ==
  [idx \in 0..(scratch_size - 1) |->
     IF v_and_m_only THEN Zero4
     ELSE [velocity_and_mass |-> Zero4,
           states |-> GridWord(sc, Add3(LinearToCoord(block), ScratchCoord(idx)))]]

\* the constructor: every scratch cell is loaded from the grid; the full variant
\* copies the GridState (velocity_and_mass and the states word), the v_and_m_only
\* variant velocity_and_mass alone
GridCache_load(sc, g, block, v_and_m_only) ==
  [idx \in 0..(scratch_size - 1) |->
     LET c == Add3(LinearToCoord(block), ScratchCoord(idx))
     IN  IF v_and_m_only THEN GridVM(g, c)
         ELSE [velocity_and_mass |-> GridVM(g, c), states |-> GridWord(sc, c)]]

ElementVM(ch, idx) ==
  IF ch.v_and_m_only THEN ch.linear[idx] ELSE ch.linear[idx].velocity_and_mass

\* the destructor: with write_back every scratch cell is stored to the grid (the
\* states word a full cache stores is the one it loaded: nothing changes it)
GridCache_store(g, block, ch) ==
  IF ~ch.write_back THEN g
  ELSE LET fp == Footprint(block)
           val(c) ==
             LET d == <<c[1] - LinearToCoord(block)[1], c[2] - LinearToCoord(block)[2],
                        c[3] - LinearToCoord(block)[3]>>
             IN  ElementVM(ch, d[1] * scratch_y_size * scratch_z_size
                                 + d[2] * scratch_z_size + d[3])
       IN  [c \in (DOMAIN g \ fp) \cup {c \in fp : val(c) # Zero4} |->
              IF c \in fp THEN val(c) ELSE g[c]]

---------------------------------------------------------------------------
(* The block kernels of rasterize_optimized                                *)

\* the weight of Kernel (the reference quadratic B-spline kernel) at signed
\* distance d from a node, d a numerator over PosUnit, over WeightUnit
QuadraticBSpline(d) ==
  LET a == IF d < 0 THEN -d ELSE d
  IN  IF a < PosDenom THEN 6 * PosDenom * PosDenom - 2 * a * a
      ELSE IF a < 3 * PosDenom THEN (3 * PosDenom - a) * (3 * PosDenom - a)
      ELSE 0

\* kernels_linearized[node_id][dim] of Kernel kernel(pos, inv_delta_x)
Kernel_weight(p, node_id) ==
  LET base == BaseCell(p)
      off == grid_pos_offset[node_id + 1]
      w(k) == QuadraticBSpline(p.pos[k] - PosUnit * (base[k] + off[k]))
  IN  w(1) * w(2) * w(3)

\* dposc[i] = dpos[i] * dpos[(i + 1) % 3]
Dposc(dpos) == <<dpos[1] * dpos[2], dpos[2] * dpos[3], dpos[3] * dpos[1]>>

MatScale(k, m) == <<Scale3(k, m[1]), Scale3(k, m[2]), Scale3(k, m[3])>>

\* the element of a set of one element
OnlyOf(S) == CHOOSE x \in S : TRUE

\* VectorP(v, mass): the momentum lanes and the mass lane
WithMass(v, mass) == <<v[1], v[2], v[3], mass>>

\* weight * contrib, lane by lane
Weighted(w, c) == <<w * c[1], w * c[2], w * c[3], w * c[4]>>

\* block_op_rigid with the cut test lost: every node is written to the grid
RigidNode_nocut(sc, linear, p, p_i, grid_base_pos, grid_cache_offset, node_id) ==
  LET grid_pos == Add3(grid_pos_offset[node_id + 1], grid_base_pos)
      dpos == Add3(p.pos, Scale3(-PosUnit, grid_pos))
      w == Kernel_weight(p, node_id)
      m == Add3(Scale3(PosUnit * PosUnit * p.mass, p.velocity),
           Add3(Scale3(PosUnit, MatVec(MatScale(inv_D * p.mass, p.apic_b), dpos)),
           Add3(MatVec(MatScale(16 * p.mass, p.apic_c), Dposc(dpos)),
                Scale3(-4 * inv_delta_x * PosUnit, MatVec(p.force, dpos)))))
  IN  [write |-> TRUE, impulse |-> {},
       delta |-> Weighted(w, WithMass(m, p.mass * PosUnit * PosUnit))]

\* one iteration of the node loop of block_op_rigid for particle p (index p_i):
\* what it adds to its scratch cell and the impulse it hands to a rigid body
RigidNode(sc, linear, p, p_i, grid_base_pos, grid_cache_offset, node_id) ==
  LET grid_pos == Add3(grid_pos_offset[node_id + 1], grid_base_pos)
      dpos == Add3(p.pos, Scale3(-PosUnit, grid_pos))
      idx == kernel_linearized(node_id) + grid_cache_offset
      g == linear[idx]
      w == Kernel_weight(p, node_id)
      grid_state == get_states(g.states)
      particle_state == p.states
  IN  IF IsCut(grid_state, particle_state)
      THEN LET r == get_rigid_body_ptr(sc, get_rigid_body_id(g.states))
           IN  IF r = -1 THEN [write |-> FALSE, impulse |-> {}, delta |-> Zero4]
               ELSE LET rigid_v == get_velocity_at(sc, r, grid_pos)
                        v_acc == p.velocity
                        side == IF 2 * r \in particle_state THEN 1 ELSE 0
                        friction == sc.frictions[r + 1][side + 1]
                    IN  \* impulse = mass * dw_w[dim] * (v_acc - projected)
                        \*             + delta_t_tmp_force * Vector(dw_w)
                        [write |-> FALSE, delta |-> Zero4,
                         impulse |-> {[rigid |-> r, at |-> grid_pos, particle |-> p_i,
                                       node |-> node_id, friction |-> friction,
                                       projected |-> friction_project(v_acc, rigid_v,
                                                       p.boundary_normal, friction)]}]
      ELSE LET dposc == Dposc(dpos)
               apic_b_inv_d_mass == MatScale(inv_D * p.mass, p.apic_b)
               apic_c_inv_d_mass == MatScale(16 * p.mass, p.apic_c)
               mass_v == Scale3(p.mass, p.velocity)
               \* mass_v + apic_b_inv_d_mass * dpos + apic_c_inv_d_mass * dposc
               \*   - delta_t_tmp_force * dpos * 4 * inv_delta_x, over PosUnit^2
               m == Add3(Scale3(PosUnit * PosUnit, mass_v),
                    Add3(Scale3(PosUnit, MatVec(apic_b_inv_d_mass, dpos)),
                    Add3(MatVec(apic_c_inv_d_mass, dposc),
                         Scale3(-4 * inv_delta_x * PosUnit, MatVec(p.force, dpos)))))
           IN  [write |-> TRUE, impulse |-> {},
                delta |-> Weighted(w, WithMass(m, p.mass * PosUnit * PosUnit))]

\* the contribution of LOOP(node_id) for the particle's dpos and weight
NormalNodeDelta(p, dpos, weight) ==
  LET apic_b_inv_d_mass == MatScale(inv_D * p.mass, p.apic_b)
      apic_c_inv_d_mass == MatScale(16 * p.mass, p.apic_c)
      mass_v == Scale3(p.mass, p.velocity)
      \* affine[i] = stress[i] * S + apic_b_inv_d_mass[i], S = -4 * inv_delta_x * delta_t
      affine == [i \in 1..3 |->
                   Add3(Scale3(-4 * inv_delta_x, p.force[i]), apic_b_inv_d_mass[i])]
      affine_prod == Add3(Scale3(PosUnit * dpos[3], affine[3]),
                     Add3(Scale3(PosUnit * dpos[2], affine[2]),
                     Add3(Scale3(PosUnit * dpos[1], affine[1]),
                          Scale3(PosUnit * PosUnit, mass_v))))
      ac == [i \in 1..3 |-> Scale3(dpos[i] * dpos[(i % 3) + 1], apic_c_inv_d_mass[i])]
      acp == Add3(ac[1], Add3(ac[2], ac[3]))
      \* blend: lanes 0..2 of affine_prod + acp, lane 3 of mass_
      contrib == WithMass(Add3(affine_prod, acp), p.mass * PosUnit * PosUnit)
  IN  [write |-> TRUE, impulse |-> {}, delta |-> Weighted(weight, contrib)]

\* LOOP(node_id) for the particle at rela_pos from the base cell: its dpos and
\* its weight kernels[node_id / 9][node_id / 3 % 3][node_id % 3]
NormalNodeAt(p, rela_pos, node_id) ==
  NormalNodeDelta(p, Add3(rela_pos, Scale3(-PosUnit, grid_pos_offset_[node_id + 1])),
                  MLSMPMFastKernel32(rela_pos)[node_id \div 9][(node_id \div 3) % 3][node_id % 3])

\* one expansion of LOOP(node_id) in block_op_normal
NormalNode(sc, linear, p, p_i, grid_base_pos, grid_cache_offset, node_id) ==
  NormalNodeAt(p, Add3(p.pos, Scale3(-PosUnit, grid_base_pos)), node_id)

RECURSIVE SumDelta(_)
SumDelta(steps) ==
  IF steps = {} THEN Zero4
  ELSE LET s == CHOOSE s \in steps : TRUE
       IN  Add4(s.out.delta, SumDelta(steps \ {s}))

\* what the iterations of a node loop (steps, of which written add to a cell)
\* leave in the scratch, the impulses and the record of writes
NodeLoopStore(rigid_kernel, acc, p_i, steps, written) ==
  [acc EXCEPT
     !.linear = [idx \in DOMAIN @ |->
                   IF rigid_kernel
                   THEN [@[idx] EXCEPT !.velocity_and_mass =
                                         Add4(@, SumDelta({s \in written : s.idx = idx}))]
                   ELSE Add4(@[idx], SumDelta({s \in written : s.idx = idx}))],
     !.impulses = @ (+) SetToBag(UNION {s.out.impulse : s \in steps}),
     !.writes = @ \cup {<<p_i, s.node>> : s \in written}]

\* the node loop (node_id = 0 .. num_nodes - 1) for one particle: each iteration
\* reads its own scratch cell's states word, which no iteration changes, and adds
\* to that cell, so the loop leaves in a cell the sum of what its iterations add
NodeLoop(sc, rigid_kernel, acc, p_i, grid_base_pos, grid_cache_offset) ==
  OnlyOf({NodeLoopStore(rigid_kernel, acc, p_i, steps, {s \in steps : s.out.write}) :
            steps \in {{[node |-> n, idx |-> kernel_linearized(n) + grid_cache_offset,
                         out |-> IF rigid_kernel
                                 THEN RigidNode(sc, acc.linear, acc.particle[p_i + 1], p_i,
                                                grid_base_pos, grid_cache_offset, n)
                                 ELSE NormalNode(sc, acc.linear, acc.particle[p_i + 1], p_i,
                                                 grid_base_pos, grid_cache_offset, n)] :
                          n \in 0..(num_nodes - 1)}}})

\* if (particle_gravity) p.set_velocity(p.get_velocity() + gravity * delta_t)
AddGravity(sc, acc, p_i) ==
  [acc EXCEPT !.particle[p_i + 1].velocity = Add3(@, sc.gravity)]

\* the body of the particle loop for particle p_i of cell t
ParticleBody(sc, rigid_kernel, acc, p_i, grid_base_pos, grid_cache_offset) ==
  IF rigid_kernel /\ acc.particle[p_i + 1].is_rigid THEN acc
  ELSE NodeLoop(sc, rigid_kernel, AddGravity(sc, acc, p_i), p_i, grid_base_pos,
                grid_cache_offset)

\* particle_end after the cell loop has passed the cells 0 .. t - 1 of the block
ParticleEnd(lat, ps0, block, t) ==
  particle_offset(lat, ps0, block)
    + Cardinality({i \in 1..Len(ps0) :
                     BlockOf(BaseCell(ps0[i])) = block /\ ElemOf(BaseCell(ps0[i])) < t})

\* the cell t of the block whose range [particle_begin, particle_end) holds p_i
CellOfIndex(lat, ps0, block, p_i) ==
  CHOOSE t \in 0..(elements_per_block - 1) :
    ParticleEnd(lat, ps0, block, t) <= p_i /\ p_i < ParticleEnd(lat, ps0, block, t + 1)

RECURSIVE CellLoop(_, _, _, _, _, _, _)
\* for (t = 0; t < elements_per_block; t++) for (p_i = particle_begin; p_i <
\* particle_end; p_i++): the indices from the block's particle_offset on, in order
CellLoop(lat, sc, rigid_kernel, ps0, acc, block, p_i) ==
  IF p_i >= ParticleEnd(lat, ps0, block, elements_per_block) THEN acc
  ELSE LET t == CellOfIndex(lat, ps0, block, p_i)
           grid_base_pos == Add3(LinearToCoord(block), spgrid_block_linear_to_vector(t))
           grid_cache_offset == spgrid_block_to_grid_cache_block(t)
       IN  CellLoop(lat, sc, rigid_kernel, ps0,
                    ParticleBody(sc, rigid_kernel, acc, p_i, grid_base_pos, grid_cache_offset),
                    block, p_i + 1)

\* block_op_switch: block_op_rigid for a page of rigid_page_map, else block_op_normal
block_op(lat, sc, ps, ch, block) ==
  CellLoop(lat, sc, ~ch.v_and_m_only, ps,
           [linear |-> ch.linear, particle |-> ps, impulses |-> EmptyBag, writes |-> {}],
           block, particle_offset(lat, ps, block))

---------------------------------------------------------------------------
(* The impulse protocol of a rigid body                                    *)

\* the calls a rigid body has received: its resets, the impulses held in its
\* scratch, the impulses that came before its first reset or after a flush,
\* and its flushes
NoCalls == [resets |-> 0, pending |-> 0, early |-> 0, late |-> 0, flushes |-> 0]

\* for (auto &r : rigids) r->reset_tmp_velocity()
ResetAll(rb) == [r \in DOMAIN rb |-> [rb[r] EXCEPT !.resets = @ + 1, !.pending = 0]]

\* the number of records of the bag that go to rigid body r
ImpulsesTo(bag, r) ==
  BagCardinality([rec \in {x \in BagToSet(bag) : x.rigid = r} |-> CopiesIn(rec, bag)])

\* r->apply_tmp_impulse(impulse, point), once for every record of the bag
ApplyImpulses(rb, bag) ==
  [r \in DOMAIN rb |->
     LET n == ImpulsesTo(bag, r)
     IN  IF n = 0 THEN rb[r]
         ELSE IF rb[r].resets = 0 THEN [rb[r] EXCEPT !.early = @ + n]
         ELSE IF rb[r].flushes > 0 THEN [rb[r] EXCEPT !.late = @ + n]
         ELSE [rb[r] EXCEPT !.pending = @ + n]]

\* for (auto &r : rigids) r->apply_tmp_velocity()
FlushAll(rb) == [r \in DOMAIN rb |-> [rb[r] EXCEPT !.flushes = @ + 1]]

---------------------------------------------------------------------------
(* The rasterize phase                                                     *)

InFlight == {b \in DOMAIN pc : pc[b] \in {"loaded", "processed"}}

\* which of the four transfers a behaviour runs: the optimized ones have a
\* closure per block, and only a resample has its damping
Transfer ==
  IF DOMAIN pc = Blocks(lattice)
  THEN IF "damping" \in DOMAIN scene THEN "resample_optimized" ELSE "rasterize_optimized"
  ELSE IF "damping" \in DOMAIN scene THEN "resample" ELSE "rasterize"

reset_tmp_velocity ==
  /\ phase = "start"
  /\ phase' = "blocks"
  /\ impulses' = EmptyBag
  /\ rigids' = ResetAll(rigids)
  /\ UNCHANGED <<lattice, scene, particle, grid, cache, pc, color, writes>>
  /\ UNCHANGED notTransfer

\* a worker takes a block of the running colour and enters its closure: the
\* GridCache is constructed
BlockEnter(block) ==
  /\ Transfer = "rasterize_optimized"
  /\ phase = "blocks"
  /\ pc[block] = "idle"
  /\ BlockColor(block) = color
  /\ Cardinality(InFlight) < NumThreads
  /\ LET v_and_m_only == ~Test_Page(scene, block)
     IN  cache' = [b \in DOMAIN cache \cup {block} |->
                     IF b = block
                     THEN [v_and_m_only |-> v_and_m_only, write_back |-> TRUE,
                           linear |-> GridCache_load(scene, grid, block, v_and_m_only)]
                     ELSE cache[b]]
  /\ pc' = [pc EXCEPT ![block] = "loaded"]
  /\ UNCHANGED <<lattice, scene, particle, grid, color, phase, impulses, writes>>
  /\ UNCHANGED notP2G

\* the loops of the closure, on its own scratch and its own particles
BlockLoops(block) ==
  /\ Transfer = "rasterize_optimized"
  /\ pc[block] = "loaded"
  /\ LET out == block_op(lattice, scene, particle, cache[block], block)
     IN  /\ cache' = [cache EXCEPT ![block].linear = out.linear]
         /\ particle' = out.particle
         /\ impulses' = impulses (+) out.impulses
         /\ rigids' = ApplyImpulses(rigids, out.impulses)
         /\ writes' = writes \cup out.writes
  /\ pc' = [pc EXCEPT ![block] = "processed"]
  /\ UNCHANGED <<lattice, scene, grid, color, phase>>
  /\ UNCHANGED notTransfer

\* the closure returns: the GridCache is destroyed
BlockLeave(block) ==
  /\ Transfer = "rasterize_optimized"
  /\ pc[block] = "processed"
  /\ grid' = GridCache_store(grid, block, cache[block])
  /\ cache' = [b \in DOMAIN cache \ {block} |-> cache[b]]
  /\ pc' = [pc EXCEPT ![block] = "done"]
  /\ UNCHANGED <<lattice, scene, particle, color, phase, impulses, writes>>
  /\ UNCHANGED notP2G

\* the barrier between two colours
NextColor ==
  /\ Transfer \in {"rasterize_optimized", "resample_optimized"}
  /\ phase = "blocks"
  /\ color < 8
  /\ \A b \in DOMAIN pc : BlockColor(b) = color => pc[b] = "done"
  /\ color' = color + 1
  /\ UNCHANGED <<lattice, scene, particle, grid, cache, pc, phase, impulses, writes>>
  /\ UNCHANGED notP2G

\* the flush without waiting for the dispatch to return
apply_tmp_velocity_early ==
  /\ Transfer \in {"rasterize_optimized", "resample_optimized"}
  /\ phase = "blocks"
  /\ phase' = "done"
  /\ rigids' = FlushAll(rigids)
  /\ UNCHANGED <<lattice, scene, particle, grid, cache, pc, color, impulses, writes>>
  /\ UNCHANGED notTransfer

apply_tmp_velocity ==
  /\ Transfer \in {"rasterize_optimized", "resample_optimized"}
  /\ phase = "blocks"
  /\ color = 8
  /\ phase' = "done"
  /\ rigids' = FlushAll(rigids)
  /\ UNCHANGED <<lattice, scene, particle, grid, cache, pc, color, impulses, writes>>
  /\ UNCHANGED notTransfer

IdleP2G ==
  /\ lattice = <<0, 0, 0>>
  /\ scene = Scene(FALSE, Zero3)
  /\ particle = <<>>
  /\ grid = <<>>
  /\ cache = <<>>
  /\ pc = <<>>
  /\ color = 0
  /\ phase = "idle"
  /\ impulses = EmptyBag
  /\ writes = {}
  /\ rigids = <<>>
  /\ plasticity_counter = 0

\* the sorted particle array: by block, then by cell within the block
SortKey(lat, p) ==
  BlockIndex(lat, BlockOf(BaseCell(p))) * elements_per_block + ElemOf(BaseCell(p))

InitRasterize(lat, choices, scenes) ==
  /\ lattice = lat
  /\ scene \in scenes
  /\ \E ids \in [1..choices -> 1..Len(ParticleChoices)] :
       /\ \A i \in 1..(choices - 1) : ids[i] <= ids[i + 1]
       /\ \A i \in 1..choices : ParticleChoices[ids[i]].is_rigid => scene.rigid
       /\ particle = [i \in 1..choices |-> MakeParticle(scene, ParticleChoices[ids[i]])]
  /\ \A i \in 1..(Len(particle) - 1) :
       SortKey(lat, particle[i]) <= SortKey(lat, particle[i + 1])
  /\ \A i \in 1..Len(particle) : BlockOf(BaseCell(particle[i])) \in Blocks(lat)
  /\ grid = <<>>
  /\ cache = <<>>
  /\ pc = [b \in Blocks(lat) |-> "idle"]
  /\ color = 0
  /\ phase = "start"
  /\ impulses = EmptyBag
  /\ writes = {}
  /\ rigids = [r \in Rigids(scene) |-> NoCalls]
  /\ plasticity_counter = 0

NextRasterize ==
  \/ reset_tmp_velocity
  \/ \E block \in DOMAIN pc : BlockEnter(block)
  \/ \E block \in DOMAIN pc : BlockLoops(block)
  \/ \E block \in DOMAIN pc : BlockLeave(block)
  \/ NextColor
  \/ apply_tmp_velocity

---------------------------------------------------------------------------
(* The block kernels of resample_optimized                                 *)
(* In a resample phase a particle's pos and velocity are fractions         *)
(* [num, den] of a vector of numerators over one denominator; a grid cell  *)
(* holds the velocity the normalisation left, in whole units.  apic_b is a *)
(* numerator over VelUnit * PosUnit, apic_c over VelUnit * PosUnit^2.      *)

\* the denominator of a product of three axis weights
VelUnit == WeightUnit * WeightUnit * WeightUnit

\* base_delta_t, pushing_force and penalty of the sampled configuration
base_delta_t == 1
pushing_force == 1
penalty == 10

\* the configuration of a resample: damping says rpic_damping != 0 && apic_damping != 0
ResampleScene(rigid, damping) ==
  [rigid |-> rigid, gravity |-> Zero3, states |-> Scene(rigid, Zero3).states,
   frictions |-> RigidFrictions, velocity |-> RigidVelocities, damping |-> damping]

\* res: the grid spans the footprints of the live blocks
res(lat) ==
  << lat[1] * Pow2(block_xbits) + 2, lat[2] * Pow2(block_ybits) + 2,
     lat[3] * Pow2(block_zbits) + 2 >>

\* eps of the position correction, a numerator over VelUnit
eps == 1

\* apic_b and apic_c of a particle of a resample phase hold a matrix that is
\* either stored as it is or the value of damp_affine_momemtum, which is a
\* function of its argument alone
Undamped(m) == [damped |-> FALSE, matrix |-> m]
damp_affine_momemtum(m) == [damped |-> TRUE, matrix |-> m]

\* Matrix(s): the diagonal matrix of a scalar
DiagMatrix(s) == <<<<s, 0, 0>>, <<0, s, 0>>, <<0, 0, s>>>>

\* the particle of a resample phase a choice stands for
\* the int p.plasticity(cdg) returns in the phase: the sampled particles with an
\* odd base cell x stand for WaterParticles whose volume grows in the step
\* (return bool(int(j > 1)), 1), the others for a class that returns 0
plasticity_return(ch) == IF ch.cell[1] % 2 = 1 THEN 1 ELSE 0

MakeResampleParticle(sc, ch) ==
  [pos |-> [num |-> Add3(Scale3(PosUnit, ch.cell), ch.rel), den |-> PosUnit],
   velocity |-> [num |-> ch.velocity, den |-> 1],
   mass |-> ch.mass, apic_b |-> Undamped(ch.apic_b), apic_c |-> Undamped(ch.apic_c),
   states |-> IF sc.rigid THEN ch.states ELSE {},
   is_rigid |-> ch.is_rigid,
   near_boundary |-> sc.rigid /\ ch.near_boundary, sticky |-> ch.sticky,
   boundary_normal |-> ch.boundary_normal, boundary_distance |-> ch.boundary_distance,
   \* what the last gather accumulated, the last argument of plasticity, and
   \* how often apic_b, apic_c and the gathered velocity were assigned, the
   \* penalty was added, plasticity was called and the position advanced
   gathered |-> [v |-> Zero3, b |-> ZeroMatrix, c |-> ZeroMatrix],
   cdg |-> ZeroMatrix, apic_b_writes |-> 0, apic_c_writes |-> 0, velocity_writes |-> 0,
   penalty_calls |-> 0, plasticity_calls |-> 0, advances |-> 0,
   \* rigid_id as the last node loop left it (-1: no rigid body identified),
   \* and the position the phase found the particle at
   rigid_id |-> -1, start |-> Add3(Scale3(PosUnit, ch.cell), ch.rel),
   \* what p.plasticity(cdg) returns, the sum of what its calls returned and the
   \* sum of what the statements that called it added to plasticity_counter
   plastic |-> plasticity_return(ch), plasticity_returned |-> 0, counted |-> 0]

\* p.pos * inv_delta_x as numerators over PosUnit
KernelPos(p) ==
  [pos |-> << (p.pos.num[1] * PosUnit) \div p.pos.den, (p.pos.num[2] * PosUnit) \div p.pos.den,
              (p.pos.num[3] * PosUnit) \div p.pos.den >>]

\* the vector a fraction stands for, where the denominator divides the numerators
Quotient3(f) == << f.num[1] \div f.den, f.num[2] \div f.den, f.num[3] \div f.den >>

RECURSIVE Counted(_, _)
\* what the statements run for the particles 1 .. n have added to plasticity_counter
Counted(ps, n) == IF n = 0 THEN 0 ELSE ps[n].counted + Counted(ps, n - 1)

RECURSIVE SumTerms(_)
\* the sum of the term fields of a set of records
SumTerms(S) ==
  IF S = {} THEN Zero3
  ELSE LET s == CHOOSE s \in S : TRUE IN Add3(s.term, SumTerms(S \ {s}))

RECURSIVE SumScalars(_)
SumScalars(S) ==
  IF S = {} THEN 0
  ELSE LET s == CHOOSE s \in S : TRUE IN s.term + SumScalars(S \ {s})

\* a node loop that takes rigid_id from every node whose id names a body, cut
\* or not
NodeRigidId_uncut(sc, states, cut) ==
  IF get_rigid_body_ptr(sc, get_rigid_body_id(states)) # -1
  THEN get_rigid_body_id(states) ELSE -1

\* what an iteration of the node loop assigns to rigid_id (-1: nothing):
\*   if (cut) { r = get_rigid_body_ptr(g.get_rigid_body_id());
\*              if (r != nullptr) rigid_id = g.get_rigid_body_id(); }
NodeRigidId(sc, states, cut) ==
  IF cut /\ get_rigid_body_ptr(sc, get_rigid_body_id(states)) # -1
  THEN get_rigid_body_id(states) ELSE -1

\* one iteration of the node loop of a rigid-aware resample: the velocity the
\* node contributes for particle p, a numerator over p.velocity.den, and the
\* rigid body the node identifies (-1: rigid_id is left as it is)
ResampleCutNode(sc, g, p, grid_pos, unoptimized) ==
  LET grid_state == get_states(g.states)
      particle_state == p.states
      den == p.velocity.den
  IN  IF IsCut(grid_state, particle_state)
      THEN LET r == get_rigid_body_ptr(sc, get_rigid_body_id(g.states))
               v_g == IF r # -1 THEN Scale3(den, get_velocity_at(sc, r, grid_pos)) ELSE Zero3
               side == IF r # -1 /\ 2 * r \in particle_state THEN 1 ELSE 0
               friction0 == IF r # -1 THEN sc.frictions[r + 1][side + 1] ELSE [n |-> 0, d |-> 1]
               friction == IF unoptimized /\ p.near_boundary /\ p.sticky
                           THEN [n |-> -1, d |-> 1] ELSE friction0
               fake_v == IF p.near_boundary
                         THEN Add3(Quotient3(friction_project(p.velocity.num, v_g,
                                                              p.boundary_normal, friction)),
                                   Scale3(den * base_delta_t * pushing_force,
                                          Quotient3([num |-> p.boundary_normal.n,
                                                     den |-> p.boundary_normal.d])))
                         ELSE p.velocity.num
           IN  [grid_vel |-> fake_v, cut |-> TRUE, friction |-> friction,
                rigid_id |-> NodeRigidId(sc, g.states, TRUE)]
      ELSE [grid_vel |-> Scale3(den, <<g.velocity_and_mass[1], g.velocity_and_mass[2],
                                       g.velocity_and_mass[3]>>),
            cut |-> FALSE, friction |-> [n |-> 0, d |-> 1],
            rigid_id |-> NodeRigidId(sc, g.states, FALSE)]

\* what a node loop leaves in v, b and c, from its iterations (records with the
\* node_id n, the weight w, dpos and grid_vel):
\*   v += w * grid_vel;  b[r] += w * grid_vel * dpos[r];  c[r] += b[r] * dpos[(r + 1) % 3]
\* c[r] takes the b[r] the same iteration has just updated, so that iteration m
\* enters c[r] with the sum of dpos[(r + 1) % 3] over the iterations m .. 26
GatherSums(nodes, with_c) ==
  LET after(m, k) == SumScalars({[n |-> s.n, term |-> s.dpos[k]] : s \in {t \in nodes : t.n >= m}})
      tails == {[n |-> s.n, w |-> s.w, dpos |-> s.dpos, grid_vel |-> s.grid_vel,
                 tail |-> <<after(s.n, 2), after(s.n, 3), after(s.n, 1)>>] : s \in nodes}
  IN  [v |-> SumTerms({[n |-> s.n, term |-> Scale3(s.w, s.grid_vel)] : s \in nodes}),
       b |-> <<SumTerms({[n |-> s.n, term |-> Scale3(s.w * s.dpos[1], s.grid_vel)] : s \in nodes}),
               SumTerms({[n |-> s.n, term |-> Scale3(s.w * s.dpos[2], s.grid_vel)] : s \in nodes}),
               SumTerms({[n |-> s.n, term |-> Scale3(s.w * s.dpos[3], s.grid_vel)] : s \in nodes})>>,
       c |-> IF with_c
             THEN OnlyOf({ <<SumTerms({[n |-> s.n, term |-> Scale3(s.w * s.dpos[1] * s.tail[1],
                                                                  s.grid_vel)] : s \in ts}),
                             SumTerms({[n |-> s.n, term |-> Scale3(s.w * s.dpos[2] * s.tail[2],
                                                                  s.grid_vel)] : s \in ts}),
                             SumTerms({[n |-> s.n, term |-> Scale3(s.w * s.dpos[3] * s.tail[3],
                                                                  s.grid_vel)] : s \in ts})>> :
                           ts \in {tails} })
             ELSE ZeroMatrix]

\* cdg = b * (-4 * inv_delta_x); cdg[i] = delta_t * cdg[i] + axis(i), a numerator
\* over VelUnit * PosUnit * den
DeformationIncrement(b, den) ==
  [i \in 1..3 |->
     Add3(Scale3(-4 * inv_delta_x * base_delta_t, b[i]),
          Scale3(VelUnit * PosUnit * den, DiagMatrix(1)[i]))]

\* p.pos = fused_mul_add(velocity, delta_t_vec, p.pos), over the denominator of
\* the velocity (a multiple of the position's)
AdvancePos(pos, velocity) ==
  [num |-> Add3(Scale3(velocity.den \div pos.den, pos.num), Scale3(base_delta_t, velocity.num)),
   den |-> velocity.den]

\* the stencil of particle k of cell t of a block run by block_op_rigid
RigidStencil(sc, linear, p, grid_base_pos, grid_cache_offset) ==
  {LET grid_pos == Add3(grid_pos_offset[node_id + 1], grid_base_pos)
       g == linear[kernel_linearized(node_id) + grid_cache_offset]
       out == ResampleCutNode(sc, g, p, grid_pos, FALSE)
   IN  [n |-> node_id, w |-> Kernel_weight(KernelPos(p), node_id),
        dpos |-> Add3(KernelPos(p).pos, Scale3(-PosUnit, grid_pos)),
        grid_vel |-> out.grid_vel, cut |-> out.cut, rigid_id |-> out.rigid_id] :
     node_id \in 0..(num_nodes - 1)}

\* rigid_id after the node loop: the id of the last cut node that names a body
LastRigidId(nodes) ==
  LET named == {s \in nodes : s.rigid_id # -1}
  IN  IF named = {} THEN -1
      ELSE (CHOOSE s \in named : \A t \in named : t.n <= s.n).rigid_id

\* the penalty on a particle near a boundary: the velocity it loses, in whole units
PenaltyApplies(p) ==
  /\ p.near_boundary
  /\ 20 * p.boundary_distance < -1 * DistUnit      \* boundary_distance < -0.05 * delta_x
  /\ 10 * p.boundary_distance > -3 * DistUnit      \* boundary_distance > -0.3 * delta_x

delta_velocity(p) ==
  Scale3((p.boundary_distance * penalty) \div DistUnit,
         Quotient3([num |-> p.boundary_normal.n, den |-> p.boundary_normal.d]))

\* the body of the particle loop of block_op_rigid for particle k
\* (after the node loop: rigid_id and the sums it left)
RigidParticleUpdate(sc, p, k, rigid_id, sums) ==
    LET v == [num |-> sums.v, den |-> VelUnit * p.velocity.den]
        pos == AdvancePos(p.pos, v)
        hit == PenaltyApplies(p)
    IN  [particle |->
           [p EXCEPT
              !.apic_b = IF p.near_boundary THEN Undamped(ZeroMatrix)
                         ELSE damp_affine_momemtum(sums.b),
              !.apic_c = IF p.near_boundary THEN Undamped(ZeroMatrix)
                         ELSE damp_affine_momemtum(sums.c),
              !.velocity = IF hit
                           THEN [v EXCEPT !.num = Add3(@, Scale3(-v.den, delta_velocity(p)))]
                           ELSE v,
              !.cdg = DeformationIncrement(sums.b, p.velocity.den),
              !.pos = pos,
              !.gathered = sums,
              !.rigid_id = rigid_id,
              !.apic_b_writes = @ + 1,
              !.apic_c_writes = @ + 1,
              !.velocity_writes = @ + 1,
              !.penalty_calls = @ + (IF hit THEN 1 ELSE 0),
              !.plasticity_calls = @ + 1,
              !.plasticity_returned = @ + p.plastic,
              \* plasticity_counter += p.plasticity(cdg)
              !.counted = @ + p.plastic,
              !.advances = @ + 1],
         impulse |->
           IF hit /\ rigid_id # -1
           THEN {[rigid |-> rigid_id, at |-> pos, particle |-> k, node |-> -1,
                  impulse |-> Scale3(p.mass, delta_velocity(p))]}
           ELSE {}]

ResampleRigidParticle(sc, linear, p, k, grid_base_pos, grid_cache_offset) ==
  IF p.is_rigid THEN [particle |-> p, impulse |-> {}]
  ELSE OnlyOf(UNION {
         {RigidParticleUpdate(sc, p, k, LastRigidId(nodes), sums) :
            sums \in {GatherSums(nodes, TRUE)}} :
         nodes \in {RigidStencil(sc, linear, p, grid_base_pos, grid_cache_offset)}})

\* TC_REPEAT27(LOOP) of block_op_normal for particle k
NormalStencilOf(linear, p, rela_pos, kernels, grid_cache_offset) ==
      {LET off == grid_pos_offset_[node_id + 1]
           grid_vel == linear[kernel_linearized(node_id) + grid_cache_offset]
       IN  [n |-> node_id,
            w |-> kernels[node_id \div 9][(node_id \div 3) % 3][node_id % 3],
            dpos |-> <<rela_pos[1] - PosUnit * off[1], rela_pos[2] - PosUnit * off[2],
                       rela_pos[3] - PosUnit * off[3]>>,
            grid_vel |-> Scale3(p.velocity.den, <<grid_vel[1], grid_vel[2], grid_vel[3]>>),
            cut |-> FALSE, rigid_id |-> -1] :
         node_id \in 0..(num_nodes - 1)}

NormalStencil(linear, p, grid_base_pos, grid_cache_offset) ==
  OnlyOf(UNION {
    {NormalStencilOf(linear, p, rela_pos, kernels, grid_cache_offset) :
       kernels \in {MLSMPMFastKernel32(rela_pos)}} :
    rela_pos \in {Add3(KernelPos(p).pos, Scale3(-PosUnit, grid_base_pos))}})

\* the body of the particle loop of block_op_normal for particle k of block b
\* (b is the block's index in block_meta, b_ and c_ are the accumulators)
NormalParticleUpdate(sc, b, p, sums) ==
  LET b_ == sums.b
      c_ == sums.c
      v_ == [num |-> sums.v, den |-> VelUnit * p.velocity.den]
  IN  [particle |->
         [p EXCEPT
            !.apic_b = IF sc.damping THEN damp_affine_momemtum(DiagMatrix(b)) ELSE Undamped(b_),
            !.apic_c = IF sc.damping THEN @ ELSE Undamped(c_),
            !.velocity = v_,
            !.cdg = DeformationIncrement(b_, p.velocity.den),
            !.pos = AdvancePos(p.pos, v_),
            !.gathered = sums,
            !.apic_b_writes = @ + 1,
            !.apic_c_writes = IF sc.damping THEN @ ELSE @ + 1,
            !.velocity_writes = @ + 1,
            \* p.plasticity(cdg): the int it returns is not used
            !.plasticity_calls = @ + 1,
            !.plasticity_returned = @ + p.plastic,
            !.advances = @ + 1],
       impulse |-> {}]

ResampleNormalParticle(sc, b, linear, p, k, grid_base_pos, grid_cache_offset) ==
  OnlyOf({NormalParticleUpdate(sc, b, p, sums) :
            sums \in {GatherSums(NormalStencil(linear, p, grid_base_pos, grid_cache_offset),
                                  TRUE)}})

RECURSIVE ResampleCellLoop(_, _, _, _, _, _, _)
\* for (t = 0; t < elements_per_block; t++) for (k = particle_begin; k <
\* particle_end; k++): the indices from the block's particle_offset on, in order;
\* the ranges come from the particle_count and particle_offset of the sort
ResampleCellLoop(lat, sc, ps0, ch, acc, block, k) ==
  IF k >= ParticleEnd(lat, ps0, block, elements_per_block) THEN acc
  ELSE LET t == CellOfIndex(lat, ps0, block, k)
           grid_base_pos == Add3(LinearToCoord(block), spgrid_block_linear_to_vector(t))
           grid_cache_offset == spgrid_block_to_grid_cache_block(t)
           body == IF ch.v_and_m_only
                   THEN ResampleNormalParticle(sc, BlockIndex(lat, block), ch.linear,
                                               acc.particle[k + 1], k, grid_base_pos,
                                               grid_cache_offset)
                   ELSE ResampleRigidParticle(sc, ch.linear, acc.particle[k + 1], k,
                                              grid_base_pos, grid_cache_offset)
       IN  OnlyOf(UNION {
             {ResampleCellLoop(lat, sc, ps0, ch, next, block, k + 1) :
                next \in {[particle |-> [acc.particle EXCEPT ![k + 1] = out.particle],
                           impulses |-> acc.impulses (+) SetToBag(out.impulse)]}} :
             out \in {body}})

\* block_op_switch of resample_optimized
resample_block_op(lat, sc, ps0, ps, ch, block) ==
  ResampleCellLoop(lat, sc, ps0, ch, [particle |-> ps, impulses |-> EmptyBag], block,
                   particle_offset(lat, ps0, block))

---------------------------------------------------------------------------
(* The resample phase                                                      *)

\* a worker takes a block of the running colour and enters its closure:
\* Cache grid_cache(*grid, block_offset, false)
ResampleEnter(block) ==
  /\ Transfer = "resample_optimized"
  /\ phase = "blocks"
  /\ pc[block] = "idle"
  /\ BlockColor(block) = color
  /\ Cardinality(InFlight) < NumThreads
  /\ LET v_and_m_only == ~Test_Page(scene, block)
     IN  cache' = [b \in DOMAIN cache \cup {block} |->
                     IF b = block
                     THEN [v_and_m_only |-> v_and_m_only, write_back |-> FALSE,
                           linear |-> GridCache_load(scene, grid, block, v_and_m_only)]
                     ELSE cache[b]]
  /\ pc' = [pc EXCEPT ![block] = "loaded"]
  /\ UNCHANGED <<lattice, scene, particle, grid, color, phase, impulses, writes>>
  /\ UNCHANGED notP2G

\* the loops of the closure
ResampleLoops(block) ==
  /\ Transfer = "resample_optimized"
  /\ pc[block] = "loaded"
  /\ \E out \in {resample_block_op(lattice, scene, sorted, particle, cache[block], block)} :
       /\ particle' = out.particle
       /\ impulses' = impulses (+) out.impulses
       /\ rigids' = ApplyImpulses(rigids, out.impulses)
       /\ plasticity_counter' = plasticity_counter + Counted(out.particle, Len(particle))
                                   - Counted(particle, Len(particle))
  /\ pc' = [pc EXCEPT ![block] = "processed"]
  /\ UNCHANGED <<lattice, scene, grid, cache, color, phase, writes>>
  /\ UNCHANGED notResample

\* the closure returns: the GridCache is destroyed without write-back
ResampleLeave(block) ==
  /\ Transfer = "resample_optimized"
  /\ pc[block] = "processed"
  /\ grid' = GridCache_store(grid, block, cache[block])
  /\ cache' = [b \in DOMAIN cache \ {block} |-> cache[b]]
  /\ pc' = [pc EXCEPT ![block] = "done"]
  /\ UNCHANGED <<lattice, scene, particle, color, phase, impulses, writes>>
  /\ UNCHANGED notP2G

\* the grids a resample starts from: a uniform velocity field and a sheared one,
\* with unit mass, on the cells of all footprints
UniformGrid(lat) ==
  [c \in UNION {Footprint(b) : b \in Blocks(lat)} |-> <<-2, 0, 1, 1>>]

ShearedGrid(lat) ==
  [c \in UNION {Footprint(b) : b \in Blocks(lat)} |-> <<c[2] - 2, c[3] - c[2], 1, 1>>]

InitResample(lat, choices, scenes, grids) ==
  /\ lattice = lat
  /\ scene \in scenes
  /\ \E ids \in [1..choices -> 1..Len(ParticleChoices)] :
       /\ \A i \in 1..(choices - 1) : ids[i] <= ids[i + 1]
       /\ \A i \in 1..choices : ParticleChoices[ids[i]].is_rigid => scene.rigid
       /\ particle = [i \in 1..choices |-> MakeResampleParticle(scene, ParticleChoices[ids[i]])]
  /\ sorted = [i \in 1..Len(particle) |-> KernelPos(particle[i])]
  /\ \A i \in 1..(Len(sorted) - 1) : SortKey(lat, sorted[i]) <= SortKey(lat, sorted[i + 1])
  /\ \A i \in 1..Len(sorted) : BlockOf(BaseCell(sorted[i])) \in Blocks(lat)
  /\ grid \in grids
  /\ cache = <<>>
  /\ pc = [b \in Blocks(lat) |-> "idle"]
  /\ color = 0
  /\ phase = "start"
  /\ impulses = EmptyBag
  /\ writes = {}
  /\ rigids = [r \in Rigids(scene) |-> NoCalls]
  /\ plasticity_counter = 0

NextResample ==
  \/ reset_tmp_velocity
  \/ \E block \in DOMAIN pc : ResampleEnter(block)
  \/ \E block \in DOMAIN pc : ResampleLoops(block)
  \/ \E block \in DOMAIN pc : ResampleLeave(block)
  \/ NextColor
  \/ apply_tmp_velocity

---------------------------------------------------------------------------
(* The transfers rasterize and resample, one closure per particle          *)
(* parallel_for_each_particle runs the closures on the worker threads and   *)
(* returns when all have returned.  The closures of rasterize add to the    *)
(* grid cells they share without a lock: a closure is taken in two steps,   *)
(* reading its stencil's cells and storing the sums, so that a closure that *)
(* stores between the two steps of another loses its additions.             *)

\* the scene of a rasterize(delta_t, with_force)
RasterizeScene(rigid, gravity, with_force) ==
  [rigid |-> rigid, gravity |-> gravity, states |-> Scene(rigid, gravity).states,
   frictions |-> RigidFrictions, velocity |-> RigidVelocities, with_force |-> with_force]

\* the cells of the stencil of a particle of rasterize
StencilCells(p) == {Add3(grid_pos_offset[n + 1], BaseCell(p)) : n \in 0..(num_nodes - 1)}

\* one iteration of the node loop of rasterize for particle p (index p_i)
RasterizeNode(sc, p, p_i, node_id) ==
  LET i == Add3(grid_pos_offset[node_id + 1], BaseCell(p))
      dpos == Add3(p.pos, Scale3(-PosUnit, i))
      w == Kernel_weight(p, node_id)
      grid_state == get_states(GridWord(sc, i))
      particle_state == p.states
      delta_t_tmp_force == IF sc.with_force THEN p.force ELSE ZeroMatrix
  IN  IF IsCut(grid_state, particle_state)
      THEN LET r == get_rigid_body_ptr(sc, get_rigid_body_id(GridWord(sc, i)))
           IN  IF r = -1 THEN [node |-> node_id, at |-> i, write |-> FALSE, impulse |-> {},
                                delta |-> Zero4]
               ELSE LET rigid_v == get_velocity_at(sc, r, i)
                        v_acc == p.velocity
                        side == IF 2 * r \in particle_state THEN 1 ELSE 0
                        friction == sc.frictions[r + 1][side + 1]
                    IN  [node |-> node_id, at |-> i, write |-> FALSE, delta |-> Zero4,
                         impulse |-> {[rigid |-> r, at |-> i, particle |-> p_i,
                                       node |-> node_id, friction |-> friction,
                                       projected |-> friction_project(v_acc, rigid_v,
                                                       p.boundary_normal, friction)]}]
      ELSE LET apic_b_inv_d_mass == MatScale(inv_D * p.mass, p.apic_b)
               mass_v == Scale3(p.mass, p.velocity)
               \* mass_v + apic_b_inv_d_mass * dpos
               \*   - delta_t_tmp_force * dpos * 4 * inv_delta_x, over PosUnit^2
               m == Add3(Scale3(PosUnit * PosUnit, mass_v),
                    Add3(Scale3(PosUnit, MatVec(apic_b_inv_d_mass, dpos)),
                         Scale3(-4 * inv_delta_x * PosUnit, MatVec(delta_t_tmp_force, dpos))))
           IN  [node |-> node_id, at |-> i, write |-> TRUE, impulse |-> {},
                delta |-> Weighted(w, WithMass(m, p.mass * PosUnit * PosUnit))]

\* a worker takes particle k: a rigid particle returns at once; otherwise
\* gravity is added and the cells of the stencil are read
RasterizeParticleEnter(k) ==
  /\ Transfer = "rasterize"
  /\ phase = "blocks"
  /\ pc[k] = "idle"
  /\ Cardinality(InFlight) < NumThreads
  /\ IF particle[k + 1].is_rigid
     THEN /\ pc' = [pc EXCEPT ![k] = "done"]
          /\ UNCHANGED <<particle, cache>>
     ELSE /\ pc' = [pc EXCEPT ![k] = "loaded"]
          /\ particle' = [particle EXCEPT ![k + 1].velocity = Add3(@, scene.gravity)]
          /\ cache' = [j \in DOMAIN cache \cup {k} |->
                         IF j = k THEN [c \in StencilCells(particle[k + 1]) |-> GridVM(grid, c)]
                         ELSE cache[j]]
  /\ UNCHANGED <<lattice, scene, grid, color, phase, impulses, writes, rigids>>
  /\ UNCHANGED notTransfer

\* the node loop of particle k: the sums are stored and the impulses handed over
RasterizeParticleLeave(k) ==
  /\ Transfer = "rasterize"
  /\ pc[k] = "loaded"
  /\ \E steps \in {{RasterizeNode(scene, particle[k + 1], k, n) : n \in 0..(num_nodes - 1)}} :
       \E written \in {{s \in steps : s.write}} :
         \E out \in {SetToBag(UNION {s.impulse : s \in steps})} :
           /\ grid' = [c \in {c \in DOMAIN grid \cup {s.at : s \in written} :
                                 \/ c \notin {s.at : s \in written}
                                 \/ \E s \in written :
                                      s.at = c /\ Add4(cache[k][c], s.delta) # Zero4} |->
                         IF c \in {s.at : s \in written}
                         THEN Add4(cache[k][c], (CHOOSE s \in written : s.at = c).delta)
                         ELSE grid[c]]
           /\ impulses' = impulses (+) out
           /\ rigids' = ApplyImpulses(rigids, out)
           /\ writes' = writes \cup {<<k, s.node>> : s \in written}
  /\ cache' = [j \in DOMAIN cache \ {k} |-> cache[j]]
  /\ pc' = [pc EXCEPT ![k] = "done"]
  /\ UNCHANGED <<lattice, scene, particle, color, phase>>
  /\ UNCHANGED notTransfer

\* the stencil of particle p of resample
ReferenceStencil(sc, g, p) ==
  {LET i == Add3(grid_pos_offset[node_id + 1], BaseCell(KernelPos(p)))
       out == ResampleCutNode(sc, [velocity_and_mass |-> GridVM(g, i),
                                   states |-> GridWord(sc, i)], p, i, TRUE)
   IN  [n |-> node_id, w |-> Kernel_weight(KernelPos(p), node_id),
        dpos |-> Add3(KernelPos(p).pos, Scale3(-PosUnit, i)),
        grid_vel |-> out.grid_vel, cut |-> out.cut, rigid_id |-> out.rigid_id] :
     node_id \in 0..(num_nodes - 1)}

\* p.pos = (p.pos * inv_delta_x).clamp(Vector(0), res - Vector(eps)) * delta_x
ClampPos(lat, pos) ==
  [pos EXCEPT !.num = [i \in 1..3 |->
                         IF pos.num[i] < 0 THEN 0
                         ELSE IF pos.num[i] > res(lat)[i] * pos.den - eps
                              THEN res(lat)[i] * pos.den - eps
                              ELSE pos.num[i]]]

\* the closure of resample after its node loop, for particle k
ReferenceParticleUpdate(lat, sc, p, k, rigid_id, sums) ==
    LET v == [num |-> sums.v, den |-> VelUnit * p.velocity.den]
        pos == ClampPos(lat, AdvancePos(p.pos, v))
        hit == PenaltyApplies(p)
    IN  [particle |->
           [p EXCEPT
              !.apic_b = IF p.near_boundary THEN Undamped(ZeroMatrix)
                         ELSE damp_affine_momemtum(sums.b),
              !.velocity = IF hit
                           THEN [v EXCEPT !.num = Add3(@, Scale3(-v.den, delta_velocity(p)))]
                           ELSE v,
              !.cdg = DeformationIncrement(sums.b, p.velocity.den),
              !.pos = pos,
              !.gathered = sums,
              !.rigid_id = rigid_id,
              !.apic_b_writes = @ + 1,
              !.velocity_writes = @ + 1,
              !.penalty_calls = @ + (IF hit THEN 1 ELSE 0),
              !.plasticity_calls = @ + 1,
              !.plasticity_returned = @ + p.plastic,
              \* plasticity_counter += p.plasticity(cdg)
              !.counted = @ + p.plastic,
              !.advances = @ + 1],
         impulse |->
           IF hit /\ rigid_id # -1
           THEN {[rigid |-> rigid_id, at |-> pos, particle |-> k, node |-> -1,
                  impulse |-> Scale3(p.mass, delta_velocity(p))]}
           ELSE {}]

\* the closure of resample for particle k
ResampleParticle(k) ==
  /\ Transfer = "resample"
  /\ phase = "blocks"
  /\ pc[k] = "idle"
  /\ IF particle[k + 1].is_rigid
     THEN UNCHANGED <<particle, impulses, rigids, plasticity_counter>>
     ELSE \E nodes \in {ReferenceStencil(scene, grid, particle[k + 1])} :
            \E sums \in {GatherSums(nodes, FALSE)} :
              \E out \in {ReferenceParticleUpdate(lattice, scene, particle[k + 1], k,
                                                  LastRigidId(nodes), sums)} :
                /\ particle' = [particle EXCEPT ![k + 1] = out.particle]
                /\ impulses' = impulses (+) SetToBag(out.impulse)
                /\ rigids' = ApplyImpulses(rigids, SetToBag(out.impulse))
                /\ plasticity_counter' = plasticity_counter + out.particle.counted
                                            - particle[k + 1].counted
  /\ pc' = [pc EXCEPT ![k] = "done"]
  /\ UNCHANGED <<lattice, scene, grid, cache, color, phase, writes>>
  /\ UNCHANGED notResample

\* parallel_for_each_particle has returned: for (auto &r : rigids) r->apply_tmp_velocity()
apply_tmp_velocity_particles ==
  /\ Transfer \in {"rasterize", "resample"}
  /\ phase = "blocks"
  /\ \A k \in DOMAIN pc : pc[k] = "done"
  /\ phase' = "done"
  /\ rigids' = FlushAll(rigids)
  /\ UNCHANGED <<lattice, scene, particle, grid, cache, pc, color, impulses, writes>>
  /\ UNCHANGED notTransfer

\* a rasterize or a resample over the particles of a row of blocks
InitReference(lat, choices, scenes, grids) ==
  /\ lattice = lat
  /\ scene \in scenes
  /\ \E ids \in [1..choices -> 1..Len(ParticleChoices)] :
       /\ \A i \in 1..(choices - 1) : ids[i] <= ids[i + 1]
       /\ \A i \in 1..choices : ParticleChoices[ids[i]].is_rigid => scene.rigid
       /\ particle = [i \in 1..choices |->
                        IF "damping" \in DOMAIN scene
                        THEN MakeResampleParticle(scene, ParticleChoices[ids[i]])
                        ELSE MakeParticle(scene, ParticleChoices[ids[i]])]
  /\ sorted = <<>>
  /\ grid \in (IF "damping" \in DOMAIN scene THEN grids ELSE {<<>>})
  /\ cache = <<>>
  /\ pc = [k \in 0..(choices - 1) |-> "idle"]
  /\ color = 0
  /\ phase = "start"
  /\ impulses = EmptyBag
  /\ writes = {}
  /\ rigids = [r \in Rigids(scene) |-> NoCalls]
  /\ plasticity_counter = 0

NextReference ==
  \/ reset_tmp_velocity
  \/ \E k \in DOMAIN pc : RasterizeParticleEnter(k)
  \/ \E k \in DOMAIN pc : RasterizeParticleLeave(k)
  \/ \E k \in DOMAIN pc : ResampleParticle(k)
  \/ apply_tmp_velocity_particles

---------------------------------------------------------------------------
(* Two copies of one transfer, the second with a rigid body's sides        *)
(* relabelled                                                              *)

\* side bit 2r of a states word swapped where body r is active (bit 2r + 1)
SwapSide(w, r) ==
  IF 2 * r + 1 \notin w THEN w
  ELSE IF 2 * r \in w THEN w \ {2 * r} ELSE w \cup {2 * r}

\* the scene with the sides of body r swapped on every cell; with_frictions
\* says that the body's two friction coefficients change places as well
RelabelScene(sc, r, with_frictions) ==
  [sc EXCEPT !.states = [x \in DOMAIN @ |-> SwapSide(@[x], r)],
             !.frictions[r + 1] = IF with_frictions THEN <<@[2], @[1]>> ELSE @]

RelabelParticles(ps, r) == [i \in DOMAIN ps |-> [ps[i] EXCEPT !.states = SwapSide(@, r)]]

\* the blocks in the order the colours run them
BlockOrder(lat, block) == BlockColor(block) * 4096 + BlockIndex(lat, block)

RECURSIVE RasterizeBlocks(_, _, _, _)
\* parallel_for_each_block_with_index(block_op_switch, false, true) with the
\* closures one after the other: st holds the particles, the grid, the impulses
\* and the writes so far
RasterizeBlocks(lat, sc, st, todo) ==
  IF todo = {} THEN st
  ELSE LET block == CHOOSE b \in todo : \A c \in todo : BlockOrder(lat, b) <= BlockOrder(lat, c)
           closure(ch) ==
             {[particle |-> out.particle,
               grid |-> GridCache_store(st.grid, block, [ch EXCEPT !.linear = out.linear]),
               impulses |-> st.impulses (+) out.impulses,
               writes |-> st.writes \cup out.writes] :
                out \in {block_op(lat, sc, st.particle, ch, block)}}
       IN  OnlyOf(UNION UNION {
             {{RasterizeBlocks(lat, sc, next, todo \ {block}) : next \in closure(ch)} :
                ch \in {[v_and_m_only |-> v_and_m_only, write_back |-> TRUE,
                         linear |-> GridCache_load(sc, st.grid, block, v_and_m_only)]}} :
             v_and_m_only \in {~Test_Page(sc, block)}})

RECURSIVE ResampleBlocks(_, _, _, _, _)
\* parallel_for_each_block_with_index(block_op_switch, false, false) likewise
ResampleBlocks(lat, sc, ps0, st, todo) ==
  IF todo = {} THEN st
  ELSE LET block == CHOOSE b \in todo : \A c \in todo : BlockOrder(lat, b) <= BlockOrder(lat, c)
           closure(ch) ==
             {[particle |-> out.particle, grid |-> st.grid,
               impulses |-> st.impulses (+) out.impulses, writes |-> st.writes] :
                out \in {resample_block_op(lat, sc, ps0, st.particle, ch, block)}}
       IN  OnlyOf(UNION UNION {
             {{ResampleBlocks(lat, sc, ps0, next, todo \ {block}) : next \in closure(ch)} :
                ch \in {[v_and_m_only |-> v_and_m_only, write_back |-> FALSE,
                         linear |-> GridCache_load(sc, st.grid, block, v_and_m_only)]}} :
             v_and_m_only \in {~Test_Page(sc, block)}})

NoTwin == [transfer |-> "none"]

\* rasterize_optimized on both copies
RasterizeBoth ==
  /\ twin.transfer = "rasterize"
  /\ phase = "start"
  /\ \E a \in {RasterizeBlocks(lattice, scene,
                 [particle |-> particle, grid |-> grid, impulses |-> EmptyBag, writes |-> {}],
                 Blocks(lattice))} :
       \E b \in {RasterizeBlocks(lattice, twin.scene,
                   [particle |-> twin.particle, grid |-> twin.grid, impulses |-> EmptyBag,
                    writes |-> {}],
                   Blocks(lattice))} :
         /\ particle' = a.particle
         /\ grid' = a.grid
         /\ impulses' = a.impulses
         /\ writes' = a.writes
         /\ twin' = [twin EXCEPT !.particle = b.particle, !.grid = b.grid,
                                 !.impulses = b.impulses]
         /\ rigids' = FlushAll(ApplyImpulses(ResetAll(rigids), a.impulses))
  /\ pc' = [b \in DOMAIN pc |-> "done"]
  /\ color' = 8
  /\ phase' = "done"
  /\ UNCHANGED <<lattice, scene, cache, cell, last_call, coloring, stencil, fcall, sorted,
                 material, plasticity_counter>>

\* resample_optimized on both copies
ResampleBoth ==
  /\ twin.transfer = "resample"
  /\ phase = "start"
  /\ \E a \in {ResampleBlocks(lattice, scene, sorted,
                 [particle |-> particle, grid |-> grid, impulses |-> EmptyBag, writes |-> {}],
                 Blocks(lattice))} :
       \E b \in {ResampleBlocks(lattice, twin.scene, sorted,
                   [particle |-> twin.particle, grid |-> twin.grid, impulses |-> EmptyBag,
                    writes |-> {}],
                   Blocks(lattice))} :
         /\ particle' = a.particle
         /\ impulses' = a.impulses
         /\ twin' = [twin EXCEPT !.particle = b.particle, !.impulses = b.impulses]
         /\ plasticity_counter' = plasticity_counter + Counted(a.particle, Len(particle))
                                     - Counted(particle, Len(particle))
         /\ rigids' = FlushAll(ApplyImpulses(ResetAll(rigids), a.impulses))
  /\ pc' = [b \in DOMAIN pc |-> "done"]
  /\ color' = 8
  /\ phase' = "done"
  /\ UNCHANGED <<lattice, scene, grid, cache, writes, cell, last_call, coloring, stencil,
                 fcall, sorted, material>>

\* the second copy of the state the first copy starts from
TwinOf(transfer, r, with_frictions) ==
  [transfer |-> transfer, r |-> r, with_frictions |-> with_frictions,
   scene |-> RelabelScene(scene, r, with_frictions),
   particle |-> RelabelParticles(particle, r), grid |-> grid, impulses |-> EmptyBag]

---------------------------------------------------------------------------
(* The two branches of block_op_switch on one block                        *)
(* rigid_page_map is built outside transfer.cpp; here phase "kernels" runs  *)
(* both block kernels of rasterize_optimized on the scratch the GridCache   *)
(* loads for a block, keeps the scratch each leaves, and lets the one       *)
(* Test_Page selects go on to the grid and the particles.                   *)

\* the particles of a block comparison: those of a phase and a rigid particle
\* lying in the last block of the row, whose own cells carry no tags
KernelChoices ==
  ParticleChoices \o
  << [cell |-> <<11, 3, 3>>, rel |-> <<Lo, Lo + 1, Hi>>, mass |-> 2, velocity |-> <<0, 1, 0>>,
      apic_b |-> ZeroMatrix, apic_c |-> ZeroMatrix, force |-> ZeroMatrix,
      states |-> TagField(1, 2), is_rigid |-> TRUE,
      near_boundary |-> TRUE, boundary_normal |-> [n |-> <<-1, 0, 0>>, d |-> 1],
      boundary_distance |-> -2, sticky |-> FALSE] >>

\* Cache grid_cache(*grid, block_offset, true) of either kernel
KernelCache(sc, g, block, v_and_m_only) ==
  [v_and_m_only |-> v_and_m_only, write_back |-> TRUE,
   linear |-> GridCache_load(sc, g, block, v_and_m_only)]

\* the velocity_and_mass lanes of every scratch cell
ScratchVM(ch) == [idx \in DOMAIN ch.linear |-> ElementVM(ch, idx)]

block_op_both(block) ==
  /\ phase = "kernels"
  /\ pc[block] = "idle"
  /\ \E by_rigid \in {block_op(lattice, scene, particle,
                               KernelCache(scene, grid, block, FALSE), block)} :
       \E by_normal \in {block_op(lattice, scene, particle,
                                  KernelCache(scene, grid, block, TRUE), block)} :
         \E v_and_m_only \in {~Test_Page(scene, block)} :
           \E out \in {IF v_and_m_only THEN by_normal ELSE by_rigid} :
             /\ cache' = [b \in DOMAIN cache \cup {block} |->
                            IF b = block
                            THEN [block_op_rigid |->
                                    ScratchVM([v_and_m_only |-> FALSE,
                                               linear |-> by_rigid.linear]),
                                  block_op_normal |->
                                    ScratchVM([v_and_m_only |-> TRUE,
                                               linear |-> by_normal.linear])]
                            ELSE cache[b]]
             /\ grid' = GridCache_store(grid, block,
                          [v_and_m_only |-> v_and_m_only, write_back |-> TRUE,
                           linear |-> out.linear])
             /\ particle' = out.particle
             /\ impulses' = impulses (+) out.impulses
             /\ rigids' = ApplyImpulses(rigids, out.impulses)
             /\ writes' = writes \cup out.writes
  /\ pc' = [pc EXCEPT ![block] = "done"]
  /\ UNCHANGED <<lattice, scene, color, phase>>
  /\ UNCHANGED notTransfer

---------------------------------------------------------------------------
(* One stencil access into a block's scratch                               *)

\* a grid whose cells all differ: a cell holds its own coordinates
GridLabel(c) == <<c[1] + 1, c[2] + 1, c[3] + 1, 1>>

LabelledGrid(lat) ==
  [c \in UNION {Footprint(b) : b \in Blocks(lat)} |-> GridLabel(c)]

\* Cache grid_cache(*grid, block_offset, true)
ConstructCache(block) ==
  /\ cache = <<>>
  /\ LET v_and_m_only == ~Test_Page(scene, block)
     IN  cache' = (block :> [v_and_m_only |-> v_and_m_only, write_back |-> TRUE,
                             linear |-> GridCache_load(scene, grid, block, v_and_m_only)])
  /\ UNCHANGED <<lattice, scene, particle, grid, pc, color, phase, impulses, writes>>
  /\ UNCHANGED notP2G

\* grid_cache.linear[grid_cache.kernel_linearized(node_id) + grid_cache_offset]
\* for cell t of the block, in C++ an access outside the array if out of range
StencilAccess(t, node_id) ==
  /\ stencil = NoStencil
  /\ \E block \in DOMAIN cache :
       LET grid_cache_offset == spgrid_block_to_grid_cache_block(t)
           index == kernel_linearized(node_id) + grid_cache_offset
       IN  stencil' = [stage |-> "access", block |-> block, t |-> t, node_id |-> node_id,
                       index |-> index,
                       element |-> IF index \in DOMAIN cache[block].linear
                                   THEN ElementVM(cache[block], index)
                                   ELSE "outside"]
  /\ UNCHANGED <<cell, last_call, coloring, p2gVars, fcall, sorted, twin, rigids, material,
                 plasticity_counter>>

---------------------------------------------------------------------------
(* The GridCache and the sparse grid, field by field                       *)
(* Here a grid cell is a whole GridState and phase names the transfer      *)
(* whose block closures run: those of rasterize_optimized construct their  *)
(* cache with write_back = true, those of resample_optimized with false.   *)

\* a sparse grid whose cells differ in every field
GridStateAt(sc, c) ==
  [velocity_and_mass |-> GridLabel(c), distance |-> c[1] + 1, states |-> GridWord(sc, c),
   particle_count |-> c[2], lock |-> 0, flags |-> c[3] + 1, granular_fluidity |-> c[1],
   aux0 |-> c[2] + 1, aux1 |-> c[3], aux2 |-> c[1] + c[2], aux3 |-> c[2] + c[3]]

SparseGridOf(sc, lat) ==
  [c \in UNION {Footprint(b) : b \in Blocks(lat)} |-> GridStateAt(sc, c)]

\* cell c is block_base_coord + (i, j, k) for an element [i][j][k] of the scratch
InScratch(block, c) ==
  LET d == Add3(c, Scale3(-1, LinearToCoord(block)))
  IN  /\ d[1] \in 0..(scratch_x_size - 1)
      /\ d[2] \in 0..(scratch_y_size - 1)
      /\ d[3] \in 0..(scratch_z_size - 1)

\* ElementType of a cache and the scratch the constructor fills from grid_array
GridCache_ctor(grid_array, block, v_and_m_only) ==
  [idx \in 0..(scratch_size - 1) |->
     LET c == Add3(LinearToCoord(block), ScratchCoord(idx))
     IN  IF v_and_m_only THEN grid_array[c].velocity_and_mass ELSE grid_array[c]]

\* a destructor of the v_and_m_only variant that stores a fresh GridState
\* around the scratch element
GridCache_dtor_whole(grid_array, block, ch) ==
  IF ~ch.write_back THEN grid_array
  ELSE [c \in DOMAIN grid_array |->
          IF InScratch(block, c)
          THEN LET d == Add3(c, Scale3(-1, LinearToCoord(block)))
                   e == ch.linear[linearized_offset(d[1], d[2], d[3])]
               IN  IF ch.v_and_m_only
                   THEN [velocity_and_mass |-> e, distance |-> 0, states |-> {},
                         particle_count |-> 0, lock |-> 0, flags |-> 0,
                         granular_fluidity |-> 0, aux0 |-> 0, aux1 |-> 0, aux2 |-> 0,
                         aux3 |-> 0]
                   ELSE e
          ELSE grid_array[c]]

\* ~GridCache(): without write_back nothing; with it every scratch element goes
\* to its cell, to velocity_and_mass alone in the v_and_m_only variant
GridCache_dtor(grid_array, block, ch) ==
  IF ~ch.write_back THEN grid_array
  ELSE [c \in DOMAIN grid_array |->
          IF InScratch(block, c)
          THEN LET d == Add3(c, Scale3(-1, LinearToCoord(block)))
                   e == ch.linear[linearized_offset(d[1], d[2], d[3])]
               IN  IF ch.v_and_m_only
                   THEN [grid_array[c] EXCEPT !.velocity_and_mass = e]
                   ELSE e
          ELSE grid_array[c]]

\* the scratch elements a closure's kernel is followed on: the first stencil
\* node of the first cell of the block and the last node of its last cell
FollowedElements ==
  {kernel_linearized(0) + spgrid_block_to_grid_cache_block(0),
   kernel_linearized(num_nodes - 1) + spgrid_block_to_grid_cache_block(elements_per_block - 1)}

\* a worker enters a block's closure: Cache grid_cache(*grid, block_offset,
\* write_back), the variant chosen by block_op_switch
CacheEnter(block) ==
  /\ phase \in {"rasterize_optimized", "resample_optimized"}
  /\ pc[block] = "idle"
  /\ \A b \in InFlight : BlockColor(b) = BlockColor(block)
  /\ Cardinality(InFlight) < NumThreads
  /\ LET v_and_m_only == ~Test_Page(scene, block)
     IN  cache' = [b \in DOMAIN cache \cup {block} |->
                     IF b = block
                     THEN [v_and_m_only |-> v_and_m_only,
                           write_back |-> (phase = "rasterize_optimized"),
                           linear |-> GridCache_ctor(grid, block, v_and_m_only)]
                     ELSE cache[b]]
  /\ pc' = [pc EXCEPT ![block] = "loaded"]
  /\ UNCHANGED <<lattice, scene, particle, grid, color, phase, impulses, writes>>
  /\ UNCHANGED notP2G

\* the kernel of rasterize_optimized adds a particle's delta to a scratch
\* element: g.velocity_and_mass += delta (the kernels of resample_optimized
\* only read the scratch)
ScratchAdd(block, idx) ==
  /\ phase = "rasterize_optimized"
  /\ pc[block] = "loaded"
  /\ <<block, idx>> \notin writes
  /\ LET delta == <<1, 0, 2, 1>>
         ch == cache[block]
     IN  cache' = [cache EXCEPT ![block].linear[idx] =
                     IF ch.v_and_m_only THEN Add4(@, delta)
                     ELSE [@ EXCEPT !.velocity_and_mass = Add4(@, delta)]]
  /\ writes' = writes \cup {<<block, idx>>}
  /\ UNCHANGED <<lattice, scene, particle, grid, pc, color, phase, impulses>>
  /\ UNCHANGED notP2G

\* the closure returns and its cache is destroyed
CacheLeave(block) ==
  /\ phase \in {"rasterize_optimized", "resample_optimized"}
  /\ pc[block] = "loaded"
  /\ grid' = GridCache_dtor(grid, block, cache[block])
  /\ cache' = [b \in DOMAIN cache \ {block} |-> cache[b]]
  /\ pc' = [pc EXCEPT ![block] = "done"]
  /\ UNCHANGED <<lattice, scene, particle, color, phase, impulses, writes>>
  /\ UNCHANGED notP2G

---------------------------------------------------------------------------
(* The particles of the material classes                                   *)
(* A real is kept in fixed point, as a whole number of 1/RealUnit; a       *)
(* product or quotient is rounded down to the unit.  Deformation gradients *)
(* and stresses are diagonal matrices with positive singular values, kept  *)
(* as their three diagonal entries: transpose leaves such a matrix as it   *)
(* is, svd gives u = v = 1 and sig the matrix, polar_decomp gives r = 1.   *)
(* std::log and std::exp are exact at the powers of two (up to the         *)
(* rounding of ln 2) and interpolated linearly between them.               *)

RealBits == 6
MaxCalls == 3
nonlocal_eps == 0

RealUnit == Pow2(RealBits)
Real(n, d) == (n * RealUnit) \div d
FMul(a, b) == (a * b) \div RealUnit
FDiv(a, b) == (a * RealUnit) \div b
FSqrt(a) == SqrtFloor(a * RealUnit)

\* Where a class lets a value leave the finite reals the arithmetic is that of
\* the floating-point type: a result beyond the largest finite real RealMax is
\* an infinity, and NaN is a value of its own that every comparison is false on.
RealMax == Pow2(RealBits) * RealUnit
Infinity == RealMax + 1
NaN == RealMax + 2

isnan(a) == a = NaN
isinf(a) == a = Infinity \/ a = -Infinity
isfinite(a) == ~isnan(a) /\ ~isinf(a)

\* the value a finite result is rounded to
Float(v) == IF v > RealMax THEN Infinity ELSE IF v < -RealMax THEN -Infinity ELSE v

Sign(a) == IF a > 0 THEN 1 ELSE IF a < 0 THEN -1 ELSE 0

\* a * b
IeeeMul(a, b) ==
  IF isnan(a) \/ isnan(b) THEN NaN
  ELSE IF isinf(a) \/ isinf(b)
       THEN IF a = 0 \/ b = 0 THEN NaN ELSE Sign(a) * Sign(b) * Infinity
       ELSE Float(FMul(a, b))

\* a + b
IeeeAdd(a, b) ==
  IF isnan(a) \/ isnan(b) THEN NaN
  ELSE IF isinf(a) /\ isinf(b) THEN (IF a = b THEN a ELSE NaN)
  ELSE IF isinf(a) THEN a
  ELSE IF isinf(b) THEN b
  ELSE Float(a + b)

\* -a
IeeeNeg(a) == IF isnan(a) THEN NaN ELSE -a

\* a / b (a zero divisor is +0)
IeeeDiv(a, b) ==
  IF isnan(a) \/ isnan(b) THEN NaN
  ELSE IF isinf(a) THEN (IF isinf(b) THEN NaN
                         ELSE Sign(a) * (IF b < 0 THEN -1 ELSE 1) * Infinity)
  ELSE IF isinf(b) THEN 0
  ELSE IF b = 0 THEN (IF a = 0 THEN NaN ELSE Sign(a) * Infinity)
  ELSE Float(FDiv(a, b))

\* a < b and a <= b
IeeeLess(a, b) == ~isnan(a) /\ ~isnan(b) /\ a < b
IeeeLeq(a, b) == ~isnan(a) /\ ~isnan(b) /\ a <= b

\* std::min(a, b) is (b < a) ? b : a and std::max(a, b) is (a < b) ? b : a
std_min(a, b) == IF IeeeLess(b, a) THEN b ELSE a
std_max(a, b) == IF IeeeLess(a, b) THEN b ELSE a

\* clamp(a, lo, hi) of a value that is not NaN
clamp(a, lo, hi) == IF IeeeLess(a, lo) THEN lo ELSE IF IeeeLess(hi, a) THEN hi ELSE a

Ln2 == Real(693, 1000)

RECURSIVE FLog(_)
FLog(a) ==
  IF a >= 2 * RealUnit THEN Ln2 + FLog(a \div 2)
  ELSE IF a < RealUnit THEN FLog(2 * a) - Ln2
  ELSE FMul(a - RealUnit, Ln2)

RECURSIVE FExp(_)
FExp(a) ==
  IF a >= Ln2 THEN 2 * FExp(a - Ln2)
  ELSE IF a < 0 THEN FExp(a + Ln2) \div 2
  ELSE RealUnit + FDiv(a, Ln2)

\* std::log(a) and sqrt(a) where a may be 0, negative, infinite or NaN
IeeeLog(a) ==
  IF isnan(a) \/ a < 0 THEN NaN
  ELSE IF a = 0 THEN -Infinity
  ELSE IF a = Infinity THEN Infinity
  ELSE FLog(a)

IeeeSqrt(a) ==
  IF isnan(a) \/ a < 0 THEN NaN
  ELSE IF a = Infinity THEN Infinity
  ELSE FSqrt(a)

\* std::pow(a, n) for a whole exponent n >= 0
RECURSIVE FPow(_, _)
FPow(a, n) == IF n = 0 THEN RealUnit ELSE FMul(a, FPow(a, n - 1))

\* Matrix(k), the multiple k of the unit matrix
Diag(k) == <<k, k, k>>
DAdd(m, n) == <<m[1] + n[1], m[2] + n[2], m[3] + n[3]>>
DSub(m, n) == <<m[1] - n[1], m[2] - n[2], m[3] - n[3]>>
DMul(m, n) == <<FMul(m[1], n[1]), FMul(m[2], n[2]), FMul(m[3], n[3])>>
DScale(k, m) == <<FMul(k, m[1]), FMul(k, m[2]), FMul(k, m[3])>>
DMap(F(_), m) == <<F(m[1]), F(m[2]), F(m[3])>>
trace(m) == m[1] + m[2] + m[3]
\* the same where an entry may be infinite or NaN
IAdd(m, n) == <<IeeeAdd(m[1], n[1]), IeeeAdd(m[2], n[2]), IeeeAdd(m[3], n[3])>>
ISub(m, n) == IAdd(m, DMap(IeeeNeg, n))
IMul(m, n) == <<IeeeMul(m[1], n[1]), IeeeMul(m[2], n[2]), IeeeMul(m[3], n[3])>>
IScale(k, m) == <<IeeeMul(k, m[1]), IeeeMul(k, m[2]), IeeeMul(k, m[3])>>
ITrace(m) == IeeeAdd(IeeeAdd(m[1], m[2]), m[3])
SumOfSquares(m) ==
  IeeeAdd(IeeeAdd(IeeeMul(m[1], m[1]), IeeeMul(m[2], m[2])), IeeeMul(m[3], m[3]))
determinant(m) == FMul(FMul(m[1], m[2]), m[3])
Reciprocal(a) == FDiv(RealUnit, a)
inverse(m) == DMap(Reciprocal, m)
svd(m) == [u |-> Diag(RealUnit), sig |-> m, v |-> Diag(RealUnit)]
polar_decomp(m) == [r |-> Diag(RealUnit), s |-> m]

\* the configuration each class is initialized with
MaterialConfig(class) ==
  CASE class = "visco" -> [lambda_0 |-> Real(2, 1), mu_0 |-> Real(1, 1)]
    [] class = "snow" -> [lambda_0 |-> Real(2, 1), mu_0 |-> Real(1, 1),
                          hardening |-> Real(2, 1),
                          theta_c |-> Real(1, 4), theta_s |-> Real(1, 8),
                          min_Jp |-> Real(6, 10), max_Jp |-> Real(20, 1)]
    [] class \in {"linear", "jelly"} -> [lambda |-> Real(2, 1), mu |-> Real(1, 1)]
    [] class = "water" -> [k |-> Real(4, 1), gamma |-> 2]
    [] class \in {"sand", "von_mises", "elastic"} ->
         [lambda_0 |-> Real(2, 1), mu_0 |-> Real(1, 1)]
    [] class = "nonlocal" ->
         [S_mod |-> Real(1, 1), B_mod |-> Real(2, 1), A_mat |-> Real(1, 1),
          dia |-> Real(1, 1), rho_s |-> Real(2, 1), rho_c |-> Real(1, 1),
          mu_s |-> Real(3, 8), mu_2 |-> Real(5, 8), I_0 |-> Real(1, 4),
          t_0 |-> Real(1, 1), delta_t |-> Real(1, 2)]

MaterialClasses ==
  {"visco", "snow", "linear", "jelly", "water", "sand", "von_mises", "elastic", "nonlocal"}

\* a particle of a class after initialize, with elastic deformation dg_e and
\* the class's own scalars (Jp of snow, j of water, logJp of sand)
MaterialParticle(class, dg_e, scalar) ==
  [class |-> class, par |-> MaterialConfig(class),
   vol |-> Real(1, 1), mass |-> Real(1, 1),
   pos |-> Zero3, velocity |-> Zero3,
   dg_e |-> dg_e, dg_p |-> Diag(RealUnit), dg_t |-> Diag(RealUnit),
   Jp |-> IF class = "snow" THEN scalar ELSE RealUnit,
   j |-> RealUnit,
   logJp |-> 0,
   gf |-> 0, tau |-> 0, p |-> 0, T |-> Diag(0)]

\* ViscoParticle, SnowParticle and JellyParticle::first_piola_kirchhoff
first_piola_kirchhoff_corotated(dg_e, mu, lambda) ==
  LET j_e == determinant(dg_e)
      r == polar_decomp(dg_e).r
  IN  DAdd(DScale(2 * mu, DSub(dg_e, r)),
           DScale(FMul(FMul(lambda, j_e - RealUnit), j_e), inverse(dg_e)))

\* SnowParticle::get_lame_parameters
get_lame_parameters(q) ==
  LET e == FExp(FMul(q.par.hardening, RealUnit - q.Jp))
  IN  [mu |-> FMul(q.par.mu_0, e), lambda |-> FMul(q.par.lambda_0, e)]

\* LinearParticle::first_piola_kirchhoff
first_piola_kirchhoff_linear(dg_e, mu, lambda) ==
  DAdd(DScale(mu, DSub(DAdd(dg_e, dg_e), Diag(2 * RealUnit))),
       Diag(FMul(lambda, trace(dg_e) - 3 * RealUnit)))

\* calculate_force of SandParticle, VonMisesParticle and ElasticParticle
calculate_force_log_strain(q) ==
  LET d == svd(q.dg_e)
      log_sig == DMap(FLog, d.sig)
      inv_sig == DMap(Reciprocal, d.sig)
      center == DAdd(DMul(DScale(2 * q.par.mu_0, inv_sig), log_sig),
                     DScale(FMul(q.par.lambda_0, trace(log_sig)), inv_sig))
  IN  DMul(DScale(-q.vol, DMul(DMul(d.u, center), d.v)), q.dg_e)

\* WaterParticle::calculate_force
calculate_force_water(q) ==
  IF isnan(q.j) THEN Diag(NaN)
  ELSE LET p == FMul(q.par.k, FPow(Reciprocal(q.j), q.par.gamma) - RealUnit)
           sigma == DScale(-p, Diag(RealUnit))
       IN  DMap(Float, DScale(FMul(-q.vol, q.j), sigma))

\* the tensor calculate_force returns for a particle of each class
ForceOf(q) ==
  CASE q.class = "visco" ->
         DMul(DScale(-q.vol, first_piola_kirchhoff_corotated(q.dg_e, q.par.mu_0,
                                                              q.par.lambda_0)), q.dg_e)
    [] q.class = "snow" ->
         DMul(DScale(-q.vol, first_piola_kirchhoff_corotated(
                               q.dg_e, get_lame_parameters(q).mu,
                               get_lame_parameters(q).lambda)), q.dg_e)
    [] q.class = "linear" ->
         DMul(DScale(-q.vol, first_piola_kirchhoff_linear(q.dg_e, q.par.mu, q.par.lambda)),
              q.dg_e)
    [] q.class = "jelly" ->
         DMul(DScale(-q.vol, first_piola_kirchhoff_corotated(q.dg_e, q.par.mu,
                                                              q.par.lambda)), q.dg_e)
    [] q.class = "water" -> calculate_force_water(q)
    [] q.class \in {"sand", "von_mises", "elastic"} -> calculate_force_log_strain(q)
    [] q.class = "nonlocal" -> DScale(-q.vol, q.T)

NoMaterialCall == [op |-> "none"]
NoForce == [returned |-> FALSE, tensor |-> Diag(0)]

\* a calculate_force that keeps what it computed in the field p
calculate_force_storing ==
  /\ material.particle.class \in MaterialClasses
  /\ \E tensor \in {ForceOf(material.particle)} :
       material' = [material EXCEPT
                      !.particle.p = tensor[1] + tensor[2] + tensor[3],
                      !.force = [returned |-> TRUE, tensor |-> tensor],
                      !.last = [op |-> "calculate_force", before |-> material.particle,
                                ret |-> tensor, earlier |-> material.force]]
  /\ UNCHANGED notMaterial

\* Matrix calculate_force(): the call returns the tensor and stores nothing
calculate_force ==
  /\ material.particle.class \in MaterialClasses
  /\ \E tensor \in {ForceOf(material.particle)} :
       material' = [material EXCEPT
                      !.force = [returned |-> TRUE, tensor |-> tensor],
                      !.last = [op |-> "calculate_force", before |-> material.particle,
                                ret |-> tensor, earlier |-> material.force]]
  /\ UNCHANGED notMaterial

\* the lambda kinematics of NonlocalParticle::plasticity
kinematics(cdg, delta_t) ==
  LET L == DScale(FDiv(RealUnit, delta_t), DSub(cdg, Diag(RealUnit)))
      D == DScale(Real(1, 2), DAdd(L, L))
      D_0 == D
  IN  FMul(Real(1414, 1000),
           FSqrt(FPow(D_0[1], 2) + FPow(D_0[2], 2) + FPow(D_0[3], 2)))

\* NonlocalParticle::plasticity up to the branch: dg_t, rho, Me and p @ n+1
NonlocalTrial(q, cdg) ==
  LET dg_t == DMul(cdg, q.dg_t)
      dg_el == DMul(dg_t, inverse(q.dg_p))
      d == svd(dg_el)
      Re == DMul(d.u, d.v)
      Ee == IMul(IMul(d.v, DMap(IeeeLog, d.sig)), d.v)
      trEe == ITrace(Ee)
      Ee_0 == ISub(Ee, Diag(IeeeDiv(trEe, Real(3, 1))))
      Me == IAdd(IScale(2 * q.par.S_mod, Ee_0), Diag(IeeeMul(q.par.B_mod, trEe)))
  IN  [dg_t |-> dg_t,
       rho |-> IeeeDiv(FDiv(q.mass, q.vol), determinant(dg_t)),
       Re |-> Re, Me |-> Me,
       p |-> IeeeDiv(IeeeNeg(ITrace(Me)), Real(3, 1))]

\* the branch "Disconnected"
NonlocalDisconnected(q, cdg, trial) ==
  [q EXCEPT !.dg_t = trial.dg_t,
            !.T = Diag(0),
            !.dg_p = trial.dg_t,
            !.p = 0,
            !.gf = Max(0, FDiv(kinematics(cdg, q.par.delta_t), q.par.mu_2))]

\* the branch "Dense", up to the trial shear stress: gf, Me_0 and tau_trial.
\* With p_n == 0 the quotients by p_n are infinite or NaN and std::max(0, .)
\* leaves 0 before gf is assigned again.
NonlocalDenseTrial(q, cdg, laplacian_gf, trial) ==
  LET p_n == q.p
      mu == Min(FDiv(q.tau, p_n), q.par.mu_2 - nonlocal_eps)
      gdot_loc == -FMul(q.par.mu_s - mu, q.gf)
                  - FMul(FMul(FMul(FDiv(q.par.mu_2 - q.par.mu_s, q.par.I_0),
                                   FSqrt(FDiv(FMul(q.par.rho_s, FPow(q.par.dia, 2)), p_n))),
                              mu), FPow(q.gf, 2))
      gdot_nonloc == FMul(FMul(FPow(q.par.A_mat, 2), FPow(q.par.dia, 2)), laplacian_gf)
      Me_0 == IAdd(trial.Me, Diag(trial.p))
  IN  [gf |-> IF p_n = 0
              THEN Max(0, FDiv(kinematics(cdg, q.par.delta_t), q.par.mu_2))
              ELSE Max(0, FDiv(FMul(q.par.delta_t, gdot_loc + gdot_nonloc), q.par.t_0)
                              + q.gf),
       Me_0 |-> Me_0,
       tau_trial |-> IeeeMul(Real(707, 1000), IeeeSqrt(SumOfSquares(Me_0)))]

\* tau @ n+1 of the branch "Dense": the quotient, then if (tau < 0) tau = 0 and
\* if (tau > tau_trial) tau = tau_trial
NonlocalTau(q, p, gf, tau_trial) ==
  OnlyOf({IF IeeeLess(tau_trial, low) THEN tau_trial ELSE low :
            low \in {IF IeeeLess(tau, 0) THEN 0 ELSE tau :
                       tau \in {IeeeDiv(IeeeMul(tau_trial, p),
                                        std_max(IeeeAdd(p, IeeeMul(IeeeMul(q.par.S_mod,
                                                                           q.par.delta_t), gf)),
                                                nonlocal_eps))}}})

\* the branch "Dense" from the trial shear stress on: tau, T and dg_p @ n+1
NonlocalDenseProject(q, trial, gf, Me_0, tau_trial, tau) ==
  LET p_n == q.p
      Np == IF IeeeLess(0, tau_trial)
            THEN IScale(IeeeDiv(Real(707, 1000), tau_trial), Me_0)
            ELSE Diag(0)
      Me == ISub(trial.Me,
                 IScale(IeeeMul(Real(1414, 1000), IeeeAdd(tau_trial, IeeeNeg(tau))), Np))
      mu == IF p_n > 0
            THEN std_min(IeeeDiv(tau, std_max(trial.p, nonlocal_eps)),
                         q.par.mu_2 - nonlocal_eps)
            ELSE q.par.mu_2
  IN  [q EXCEPT !.dg_t = trial.dg_t,
                !.p = trial.p,
                !.gf = gf,
                !.tau = tau,
                !.T = IMul(IMul(IScale(IeeeDiv(RealUnit, determinant(trial.dg_t)),
                                       trial.Re), Me),
                           trial.Re),
                !.dg_p = IMul(IAdd(Diag(RealUnit),
                                   IScale(IeeeMul(IeeeMul(IeeeMul(q.par.delta_t,
                                                                  Real(707, 1000)),
                                                          mu), gf), Np)),
                              q.dg_p)]

NonlocalDense(q, cdg, laplacian_gf, trial) ==
  OnlyOf({NonlocalDenseProject(q, trial, s.gf, s.Me_0, s.tau_trial,
                               NonlocalTau(q, trial.p, s.gf, s.tau_trial)) :
            s \in {NonlocalDenseTrial(q, cdg, laplacian_gf, trial)}})

\* NonlocalParticle::plasticity with a branch test that leaves the density out
NonlocalPlasticity_pressure_only(q, cdg, laplacian_gf) ==
  OnlyOf({IF IeeeLeq(trial.p, 0)
          THEN NonlocalDisconnected(q, cdg, trial)
          ELSE NonlocalDense(q, cdg, laplacian_gf, trial) :
            trial \in {NonlocalTrial(q, cdg)}})

\* NonlocalParticle::plasticity: the particle after the call
NonlocalPlasticity(q, cdg, laplacian_gf) ==
  OnlyOf({IF IeeeLess(trial.rho, q.par.rho_c) \/ IeeeLeq(trial.p, 0)
          THEN NonlocalDisconnected(q, cdg, trial)
          ELSE NonlocalDense(q, cdg, laplacian_gf, trial) :
            trial \in {NonlocalTrial(q, cdg)}})

\* WaterParticle::plasticity: j after the call
\*   j *= cdg.diag().sum() - (dim - 1);  if (j < threshold) j = threshold;
WaterPlasticity(q, cdg) ==
  LET j == IeeeMul(q.j, IeeeAdd(IeeeAdd(IeeeAdd(cdg[1], cdg[2]), cdg[3]), -2 * RealUnit))
      threshold == Real(1, 10)
  IN  IF IeeeLess(j, threshold) THEN threshold ELSE j

\* the end of SnowParticle::plasticity with the tests Jp_new > max_Jp and
\* Jp_new < min_Jp
SnowClampJp_plaintests(q, Jp_new) ==
  LET capped == IF IeeeLess(q.par.max_Jp, Jp_new) THEN q.par.max_Jp ELSE Jp_new
  IN  IF IeeeLess(capped, q.par.min_Jp) THEN q.par.min_Jp ELSE capped

\* if (!(Jp_new <= max_Jp)) Jp_new = max_Jp;  if (!(Jp_new >= min_Jp)) Jp_new = min_Jp;
SnowClampJp(q, Jp_new) ==
  LET capped == IF ~IeeeLeq(Jp_new, q.par.max_Jp) THEN q.par.max_Jp ELSE Jp_new
  IN  IF ~IeeeLeq(q.par.min_Jp, capped) THEN q.par.min_Jp ELSE capped

\* SnowParticle::plasticity: the singular values before and after the clamp,
\* the two determinants the loop accumulates, Jp_new and the particle
SnowPlasticity(q, cdg) ==
  LET dg_e == <<IeeeMul(cdg[1], q.dg_e[1]), IeeeMul(cdg[2], q.dg_e[2]),
                IeeeMul(cdg[3], q.dg_e[3])>>
      d == svd(dg_e)
      lo == RealUnit - q.par.theta_c
      hi == RealUnit + q.par.theta_s
      sig == <<clamp(d.sig[1], lo, hi), clamp(d.sig[2], lo, hi), clamp(d.sig[3], lo, hi)>>
      dg_e_det_orig == IeeeMul(IeeeMul(IeeeMul(RealUnit, d.sig[1]), d.sig[2]), d.sig[3])
      dg_e_det == FMul(FMul(FMul(RealUnit, sig[1]), sig[2]), sig[3])
      Jp_new == IeeeDiv(IeeeMul(q.Jp, dg_e_det_orig), dg_e_det)
  IN  [particle |-> [q EXCEPT !.dg_e = DMul(DMul(d.u, sig), d.v),
                              !.Jp = SnowClampJp(q, Jp_new)],
       unclamped |-> d.sig, Jp_new |-> Jp_new]

\* the increments a snow particle is given besides: a compression below the
\* clamp, an expansion whose determinant overflows, and one with a zero entry
SnowIncrements ==
  {<<Real(1, 2), Real(1, 2), RealUnit>>, <<Real(16, 1), Real(16, 1), RealUnit>>,
   <<Real(16, 1), Real(16, 1), 0>>}

\* the increments a water particle is given besides: a large expansion, a
\* compression with trace dim - 1, and an increment with a NaN entry
WaterIncrements ==
  {<<Real(16, 1), RealUnit, RealUnit>>, <<Real(1, 2), Real(1, 2), RealUnit>>,
   <<NaN, RealUnit, RealUnit>>}

\* the deformation increments and the laplacians of gf a call is given
Increments ==
  {Diag(RealUnit), <<Real(3, 4), RealUnit, RealUnit>>, <<Real(3, 2), RealUnit, RealUnit>>,
   <<Real(5, 4), Real(3, 4), RealUnit>>}

Laplacians == {0, Real(1, 1)}

\* the increments a nonlocal particle is given: those above and one that flattens the
\* particle along x in a single step (grid velocities with velocity gradient -1/dt)
NonlocalIncrements == Increments \cup {<<0, RealUnit, RealUnit>>}

\* what a plasticity call leaves in the model: the particle, the record of
\* the call, and no force returned since
AfterPlasticity(q, cdg, laplacian_gf, ret) ==
  [particle |-> q, calls |-> material.calls + 1, force |-> NoForce,
   last |-> [op |-> "plasticity", before |-> material.particle, cdg |-> cdg,
             laplacian_gf |-> laplacian_gf, ret |-> ret]]

\* plasticity of LinearParticle, JellyParticle and ElasticParticle
plasticity_elastic ==
  /\ material.particle.class \in {"linear", "jelly", "elastic"}
  /\ material.calls < MaxCalls
  /\ \E cdg \in Increments : \E laplacian_gf \in Laplacians :
       material' = AfterPlasticity([material.particle EXCEPT !.dg_e = DMul(cdg, @)],
                                   cdg, laplacian_gf, 0)
  /\ UNCHANGED notMaterial

\* WaterParticle::plasticity
plasticity_water ==
  /\ material.particle.class = "water"
  /\ material.calls < MaxCalls
  /\ \E cdg \in Increments \cup WaterIncrements : \E laplacian_gf \in Laplacians :
       \E j \in {WaterPlasticity(material.particle, cdg)} :
         material' = AfterPlasticity([material.particle EXCEPT !.j = j],
                                     cdg, laplacian_gf,
                                     IF IeeeLess(RealUnit, j) THEN 1 ELSE 0)
  /\ UNCHANGED notMaterial

\* SnowParticle::plasticity
plasticity_snow ==
  /\ material.particle.class = "snow"
  /\ material.calls < MaxCalls
  /\ \E cdg \in Increments \cup SnowIncrements : \E laplacian_gf \in Laplacians :
       \E out \in {SnowPlasticity(material.particle, cdg)} :
         material' = [AfterPlasticity(out.particle, cdg, laplacian_gf, 0) EXCEPT
                        !.last = [op |-> "plasticity", before |-> material.particle,
                                  cdg |-> cdg, laplacian_gf |-> laplacian_gf, ret |-> 0,
                                  unclamped |-> out.unclamped, Jp_new |-> out.Jp_new]]
  /\ UNCHANGED notMaterial

\* NonlocalParticle::plasticity; a particle is followed up to the call that leaves
\* a pressure in it that is not a number
plasticity_nonlocal ==
  /\ material.particle.class = "nonlocal"
  /\ material.calls < MaxCalls
  /\ ~isnan(material.particle.p)
  /\ \E cdg \in NonlocalIncrements : \E laplacian_gf \in Laplacians :
       material' = AfterPlasticity(NonlocalPlasticity(material.particle, cdg, laplacian_gf),
                                   cdg, laplacian_gf, 0)
  /\ UNCHANGED notMaterial

\* a particle of any class after initialize and one elastic increment
InitMaterial ==
  \E class \in MaterialClasses : \E dg_e \in Increments :
    \E scalar \in {Real(1, 1), Real(3, 4)} :
      /\ class # "snow" => scalar = Real(1, 1)
      /\ class \in {"water", "nonlocal"} => dg_e = Diag(RealUnit)
      /\ material = [particle |-> MaterialParticle(class, dg_e, scalar), calls |-> 0,
                     force |-> NoForce, last |-> NoMaterialCall]

NextMaterial ==
  \/ calculate_force
  \/ plasticity_elastic
  \/ plasticity_water
  \/ plasticity_snow
  \/ plasticity_nonlocal

---------------------------------------------------------------------------
(* ViscoParticle::approximate_exponent                                     *)
(* Here a Matrix has all of its nine entries, <<row 1, row 2, row 3>>, and  *)
(* its arithmetic is that of the floating-point type.  dt / 2 is rounded    *)
(* down to the unit, so that repeated halving reaches 0 as it does where    *)
(* the floating-point type underflows.                                      *)

\* Matrix(k) with all of its entries
Matrix(k) == <<<<k, 0, 0>>, <<0, k, 0>>, <<0, 0, k>>>>

\* m * k for a real k
MatrixTimesReal(m, k) == [i \in 1..3 |-> [j \in 1..3 |-> IeeeMul(m[i][j], k)]]

\* a + b
MatrixPlus(a, b) == [i \in 1..3 |-> [j \in 1..3 |-> IeeeAdd(a[i][j], b[i][j])]]

\* a - b
MatrixMinus(a, b) == [i \in 1..3 |-> [j \in 1..3 |-> IeeeAdd(a[i][j], IeeeNeg(b[i][j]))]]

\* a * b
MatrixTimes(a, b) ==
  [i \in 1..3 |-> [j \in 1..3 |->
     IeeeAdd(IeeeAdd(IeeeMul(a[i][1], b[1][j]), IeeeMul(a[i][2], b[2][j])),
             IeeeMul(a[i][3], b[3][j]))]]

\* a * b - c * d
Minor(a, b, c, d) == IeeeAdd(IeeeMul(a, b), IeeeNeg(IeeeMul(c, d)))

\* determinant(m) of a 3 x 3 matrix, along its first row
determinant3(m) ==
  IeeeAdd(IeeeAdd(IeeeMul(m[1][1], Minor(m[2][2], m[3][3], m[2][3], m[3][2])),
                  IeeeNeg(IeeeMul(m[1][2], Minor(m[2][1], m[3][3], m[2][3], m[3][1])))),
          IeeeMul(m[1][3], Minor(m[2][1], m[3][2], m[2][2], m[3][1])))

\* ViscoParticle::dt, base_delta_t of the sampled configuration
visco_dt == Real(1, 4)

\* r of approximate_exponent(dt, m): (s * 0.5 + Matrix(1)) * s + Matrix(1), s = m * dt
SecondOrder(dt, m) ==
  OnlyOf(UNION UNION UNION {
    {{{MatrixPlus(ts, Matrix(RealUnit)) : ts \in {MatrixTimes(t, s)}} :
        t \in {MatrixPlus(half, Matrix(RealUnit))}} :
       half \in {MatrixTimesReal(s, Real(1, 2))}} :
    s \in {MatrixTimesReal(m, dt)}})

\* the argument plasticity passes: (cdg - Matrix(1)) * (1 / dt)
ExponentArgument(cdg) ==
  OnlyOf({MatrixTimesReal(d, IeeeDiv(RealUnit, visco_dt)) :
            d \in {MatrixMinus(cdg, Matrix(RealUnit))}})

\* a call of approximate_exponent is entered: it returns r if determinant(r) > 0
\* and calls itself with dt / 2 otherwise.  frames counts the calls in progress
\* whose dt differs from their caller's; a call with the dt and m of its caller
\* does as its caller did.
approximate_exponent ==
  /\ material.particle.class = "visco"
  /\ material.last.op = "approximate_exponent"
  /\ material.last.stage = "called"
  /\ \E r \in {SecondOrder(material.last.dt, material.last.m)} :
       material' =
         [material EXCEPT
            !.last = IF IeeeLess(0, determinant3(r))
                     THEN [@ EXCEPT !.stage = IF material.last.frames = 0 THEN "returned"
                                              ELSE "returning",
                                    !.tmp = r]
                     ELSE [@ EXCEPT !.dt = @ \div 2,
                                    !.frames = IF material.last.dt \div 2 = material.last.dt
                                               THEN @ ELSE @ + 1]]
  /\ UNCHANGED notMaterial

\* a call that called itself gets tmp and returns tmp * tmp
approximate_exponent_return ==
  /\ material.particle.class = "visco"
  /\ material.last.op = "approximate_exponent"
  /\ material.last.stage = "returning"
  /\ material' =
       [material EXCEPT
          !.last = [@ EXCEPT !.tmp = MatrixTimes(@, @),
                             !.frames = @ - 1,
                             !.stage = IF material.last.frames = 1 THEN "returned"
                                       ELSE "returning"]]
  /\ UNCHANGED notMaterial

---------------------------------------------------------------------------
(* Specifications                                                          *)

InitGridState ==
  /\ IdleRest
  /\ cell = {}
  /\ last_call = NoCall
  /\ coloring = NoColoring
  /\ stencil = NoStencil
  /\ IdleP2G

NextGridState ==
  \/ \E id \in RigidIdArgs : Call_set_rigid_body_id(id)
  \/ \E s \in StatesArgs : Call_set_states(s)

SpecGridState == InitGridState /\ [][NextGridState]_vars

InitColoring ==
  /\ IdleRest
  /\ cell = {}
  /\ last_call = NoCall
  /\ \E first \in 0..(max_num_rigid_bodies - TaggedBodies) :
       \E g \in TagWordsFrom(first, TaggedBodies) :
         \E p \in TagWordsFrom(first, TaggedBodies) :
           coloring = [g |-> g, p |-> p, out |-> "input"]
  /\ stencil = NoStencil
  /\ IdleP2G

NextColoring == EvalColoring

SpecColoring == InitColoring /\ [][NextColoring]_vars

InitKernel ==
  /\ IdleRest
  /\ cell = {}
  /\ last_call = NoCall
  /\ coloring = NoColoring
  /\ \E pos \in KernelPositions : stencil = [stage |-> "input", pos |-> pos]
  /\ IdleP2G

NextKernel == BuildKernel \/ LoopNode

SpecKernel == InitKernel /\ [][NextKernel]_vars

\* get_stencil_start on every sampled coordinate of [0, res) along each axis
InitStencilStart ==
  /\ IdleRest
  /\ cell = {}
  /\ last_call = NoCall
  /\ coloring = NoColoring
  /\ \E axis \in 1..3 : \E x \in 0..(res(<<NumBlocksX, 1, 1>>)[axis] * PosUnit - 1) :
       stencil = [stage |-> "coordinate", axis |-> axis, x |-> x, start |-> 0]
  /\ IdleP2G

SpecStencilStart == InitStencilStart /\ [][Call_get_stencil_start]_vars

\* rasterize_optimized over a row of blocks along x, with particles
InitP2G ==
  /\ IdleRest
  /\ cell = {}
  /\ last_call = NoCall
  /\ coloring = NoColoring
  /\ stencil = NoStencil
  /\ InitRasterize(<<NumBlocksX, 1, 1>>, NumParticles, Scenes)

SpecP2G == InitP2G /\ [][NextRasterize]_vars

\* rasterize_optimized over a cube of blocks, without particles
InitSchedule ==
  /\ IdleRest
  /\ cell = {}
  /\ last_call = NoCall
  /\ coloring = NoColoring
  /\ stencil = NoStencil
  /\ InitRasterize(<<NumBlocksCube, NumBlocksCube, NumBlocksCube>>, 0, {Scene(TRUE, Zero3)})

\* the workers take the blocks of a colour in the order of block_meta
BlockEnterInOrder(block) ==
  /\ \A b \in DOMAIN pc :
       (pc[b] = "idle" /\ BlockColor(b) = color)
         => BlockIndex(lattice, block) <= BlockIndex(lattice, b)
  /\ BlockEnter(block)

NextSchedule ==
  \/ reset_tmp_velocity
  \/ \E block \in DOMAIN pc : BlockEnterInOrder(block)
  \/ \E block \in DOMAIN pc : BlockLoops(block)
  \/ \E block \in DOMAIN pc : BlockLeave(block)
  \/ NextColor
  \/ apply_tmp_velocity

SpecSchedule == InitSchedule /\ [][NextSchedule]_vars

\* the stencil accesses of the block kernels into a freshly loaded GridCache
InitAccess ==
  /\ IdleRest
  /\ cell = {}
  /\ last_call = NoCall
  /\ coloring = NoColoring
  /\ stencil = NoStencil
  /\ lattice = <<NumBlocksX, 1, 1>>
  /\ scene = Scene(TRUE, Zero3)
  /\ particle = <<>>
  /\ grid = LabelledGrid(lattice)
  /\ cache = <<>>
  /\ pc = <<>>
  /\ color = 0
  /\ phase = "idle"
  /\ impulses = EmptyBag
  /\ writes = {}
  /\ rigids = <<>>
  /\ plasticity_counter = 0

NextAccess ==
  \/ \E block \in Blocks(lattice) : ConstructCache(block)
  \/ \E t \in 0..(elements_per_block - 1) : \E node_id \in 0..(num_nodes - 1) :
       StencilAccess(t, node_id)

SpecAccess == InitAccess /\ [][NextAccess]_vars

\* the caches of the block closures of one optimized transfer
InitGridCache ==
  /\ IdleRest
  /\ cell = {}
  /\ last_call = NoCall
  /\ coloring = NoColoring
  /\ stencil = NoStencil
  /\ lattice = <<NumBlocksX, 1, 1>>
  /\ scene = Scene(TRUE, Zero3)
  /\ particle = <<>>
  /\ grid = SparseGridOf(scene, lattice)
  /\ cache = <<>>
  /\ pc = [b \in Blocks(lattice) |-> "idle"]
  /\ color = 0
  /\ phase \in {"rasterize_optimized", "resample_optimized"}
  /\ impulses = EmptyBag
  /\ writes = {}
  /\ rigids = <<>>
  /\ plasticity_counter = 0

NextGridCache ==
  \/ \E block \in DOMAIN pc : CacheEnter(block)
  \/ \E block \in DOMAIN pc : \E idx \in FollowedElements : ScratchAdd(block, idx)
  \/ \E block \in DOMAIN pc : CacheLeave(block)

SpecGridCache == InitGridCache /\ [][NextGridCache]_vars

ResampleScenes ==
  {ResampleScene(FALSE, FALSE), ResampleScene(TRUE, FALSE), ResampleScene(TRUE, TRUE)}

\* resample_optimized over a row of blocks along x, with particles
InitG2P ==
  /\ cell = {}
  /\ last_call = NoCall
  /\ coloring = NoColoring
  /\ stencil = NoStencil
  /\ fcall = NoFriction /\ material = NoMaterial
  /\ twin = NoTwin
  /\ InitResample(<<NumBlocksX, 1, 1>>, NumParticles, ResampleScenes,
                  {UniformGrid(<<NumBlocksX, 1, 1>>), ShearedGrid(<<NumBlocksX, 1, 1>>)})

SpecG2P == InitG2P /\ [][NextResample]_vars

\* a transfer of a scene with rigid bodies and the same transfer of its relabelled copy
InitRelabel ==
  /\ cell = {}
  /\ last_call = NoCall
  /\ coloring = NoColoring
  /\ stencil = NoStencil
  /\ fcall = NoFriction /\ material = NoMaterial
  /\ \/ /\ InitRasterize(<<NumBlocksX, 1, 1>>, NumParticles, {Scene(TRUE, Zero3)})
        /\ sorted = <<>>
        /\ \E r \in Rigids(scene) : \E with_frictions \in BOOLEAN :
             twin = TwinOf("rasterize", r, with_frictions)
     \/ /\ InitResample(<<NumBlocksX, 1, 1>>, NumParticles, {ResampleScene(TRUE, FALSE)},
                         {ShearedGrid(<<NumBlocksX, 1, 1>>)})
        /\ \E r \in Rigids(scene) : \E with_frictions \in BOOLEAN :
             twin = TwinOf("resample", r, with_frictions)

NextRelabel == RasterizeBoth \/ ResampleBoth

SpecRelabel == InitRelabel /\ [][NextRelabel]_vars

\* both block kernels of rasterize_optimized on the blocks of a row, the blocks
\* in any order
InitBlockKernels ==
  /\ IdleRest
  /\ cell = {}
  /\ last_call = NoCall
  /\ coloring = NoColoring
  /\ stencil = NoStencil
  /\ lattice = <<NumBlocksX, 1, 1>>
  /\ scene \in Scenes
  /\ \E ids \in [1..NumParticles -> 1..Len(KernelChoices)] :
       /\ \A i \in 1..(NumParticles - 1) : ids[i] <= ids[i + 1]
       /\ \A i \in 1..NumParticles : KernelChoices[ids[i]].is_rigid => scene.rigid
       /\ particle = [i \in 1..NumParticles |-> MakeParticle(scene, KernelChoices[ids[i]])]
  /\ \A i \in 1..(Len(particle) - 1) :
       SortKey(lattice, particle[i]) <= SortKey(lattice, particle[i + 1])
  /\ \A i \in 1..Len(particle) : BlockOf(BaseCell(particle[i])) \in Blocks(lattice)
  /\ grid = <<>>
  /\ cache = <<>>
  /\ pc = [b \in Blocks(lattice) |-> "idle"]
  /\ color = 0
  /\ phase = "kernels"
  /\ impulses = EmptyBag
  /\ writes = {}
  /\ rigids = ResetAll([r \in Rigids(scene) |-> NoCalls])
  /\ plasticity_counter = 0

NextBlockKernels == \E block \in DOMAIN pc : block_op_both(block)

SpecBlockKernels == InitBlockKernels /\ [][NextBlockKernels]_vars

\* the four transfers: rasterize_optimized and resample_optimized over the
\* blocks, rasterize and resample over the particles
InitTransfers ==
  /\ cell = {}
  /\ last_call = NoCall
  /\ coloring = NoColoring
  /\ stencil = NoStencil
  /\ fcall = NoFriction /\ material = NoMaterial
  /\ twin = NoTwin
  /\ \/ /\ InitRasterize(<<NumBlocksX, 1, 1>>, NumParticles, {Scene(TRUE, Zero3)})
        /\ sorted = <<>>
     \/ InitResample(<<NumBlocksX, 1, 1>>, NumParticles, {ResampleScene(TRUE, FALSE)},
                     {UniformGrid(<<NumBlocksX, 1, 1>>)})
     \/ InitReference(<<NumBlocksX, 1, 1>>, NumParticles,
                      {RasterizeScene(TRUE, <<0, -1, 0>>, TRUE), ResampleScene(TRUE, TRUE)},
                      {UniformGrid(<<NumBlocksX, 1, 1>>)})

NextTransfers ==
  \/ reset_tmp_velocity
  \/ \E block \in DOMAIN pc : BlockEnter(block)
  \/ \E block \in DOMAIN pc : BlockLoops(block)
  \/ \E block \in DOMAIN pc : BlockLeave(block)
  \/ \E block \in DOMAIN pc : ResampleEnter(block)
  \/ \E block \in DOMAIN pc : ResampleLoops(block)
  \/ \E block \in DOMAIN pc : ResampleLeave(block)
  \/ NextColor
  \/ apply_tmp_velocity
  \/ \E k \in DOMAIN pc : RasterizeParticleEnter(k)
  \/ \E k \in DOMAIN pc : RasterizeParticleLeave(k)
  \/ \E k \in DOMAIN pc : ResampleParticle(k)
  \/ apply_tmp_velocity_particles

SpecTransfers == InitTransfers /\ [][NextTransfers]_vars

\* friction_project on sampled arguments
InitFriction ==
  /\ sorted = <<>>
  /\ twin = [transfer |-> "none"]
  /\ cell = {}
  /\ last_call = NoCall
  /\ coloring = NoColoring
  /\ stencil = NoStencil
  /\ IdleP2G
  /\ material = NoMaterial
  /\ \E velocity \in Velocities : \E base_velocity \in BaseVelocities :
       \E normal \in UnitNormals : \E mu \in FrictionCoefficients :
         /\ RationalTangentialSpeed(velocity, base_velocity, normal)
         /\ fcall = [stage |-> "input", velocity |-> velocity,
                        base_velocity |-> base_velocity, normal |-> normal,
                        friction |-> mu, result |-> [num |-> Zero3, den |-> 1]]

NextFriction == Call_friction_project

SpecFriction == InitFriction /\ [][NextFriction]_vars

\* calculate_force and plasticity on one particle of each material class
InitMaterials ==
  /\ cell = {}
  /\ last_call = NoCall
  /\ coloring = NoColoring
  /\ stencil = NoStencil
  /\ IdleP2G
  /\ fcall = NoFriction
  /\ sorted = <<>>
  /\ twin = [transfer |-> "none"]
  /\ InitMaterial

SpecMaterials == InitMaterials /\ [][NextMaterial]_vars

\* one entry of the unit matrix replaced
WithEntry(i, j, x) ==
  [k \in 1..3 |-> [l \in 1..3 |-> IF k = i /\ l = j THEN x ELSE Matrix(RealUnit)[k][l]]]

\* a quarter turn in the plane of the axes i and j
QuarterTurn(i, j) ==
  [k \in 1..3 |-> [l \in 1..3 |->
     IF k = i /\ l = j THEN -RealUnit
     ELSE IF k = j /\ l = i THEN RealUnit
     ELSE IF k = l /\ k # i /\ k # j THEN RealUnit ELSE 0]]

\* the deformation increments approximate_exponent is followed on: stretches and
\* shears, quarter turns, and increments with an entry that is NaN, infinite or
\* the largest finite real
ViscoIncrements ==
  {WithEntry(i, j, x) : i \in 1..3, j \in 1..3,
                        x \in {Real(1, 2), Real(5, 4), -RealUnit, RealMax, Infinity,
                               -Infinity, NaN}}
    \cup {QuarterTurn(ij[1], ij[2]) : ij \in {p \in (1..3) \X (1..3) : p[1] # p[2]}}

\* plasticity calls approximate_exponent(dt, (cdg - Matrix(1)) * (1 / dt))
InitVisco ==
  /\ cell = {}
  /\ last_call = NoCall
  /\ coloring = NoColoring
  /\ stencil = NoStencil
  /\ IdleP2G
  /\ fcall = NoFriction
  /\ sorted = <<>>
  /\ twin = [transfer |-> "none"]
  /\ \E cdg \in ViscoIncrements :
       material = [particle |-> [class |-> "visco"],
                   last |-> [op |-> "approximate_exponent", cdg |-> cdg, stage |-> "called",
                             dt |-> visco_dt, m |-> ExponentArgument(cdg), frames |-> 0,
                             tmp |-> Matrix(0)]]

NextVisco == approximate_exponent \/ approximate_exponent_return

\* a call in progress goes on
SpecVisco == InitVisco /\ [][NextVisco]_vars /\ WF_vars(NextVisco)

---------------------------------------------------------------------------
(* Claims about the coloring test and the GridState word                   *)

BothActiveOppositeSides(g, p, r) ==
  /\ 2 * r + 1 \in g
  /\ 2 * r + 1 \in p
  /\ (2 * r \in g) # (2 * r \in p)

\* C4: with mask = (g & p & state_mask) >> 1, the test (g & mask) != (p & mask)
\* is true exactly when some rigid body r has its active bit 2r+1 set in both
\* words and its side bit 2r different in the two words.
C4_CutIffActiveOnOppositeSides ==
  coloring.out \in {"cut", "same"} =>
    ((coloring.out = "cut") <=>
       \E r \in 0..(max_num_rigid_bodies - 1) :
         BothActiveOppositeSides(coloring.g, coloring.p, r))

\* a cut was reported while another body's side bits differ without both being active
C4_Witness ==
  /\ coloring.out = "cut"
  /\ \E r, q \in 0..(max_num_rigid_bodies - 1) :
       /\ r # q
       /\ BothActiveOppositeSides(coloring.g, coloring.p, r)
       /\ (2 * q \in coloring.g) # (2 * q \in coloring.p)
       /\ ~(2 * q + 1 \in coloring.g /\ 2 * q + 1 \in coloring.p)

\* C6: after set_rigid_body_id(id) with id in [0,12), whatever the word held
\* before, get_rigid_body_id() returns id, the 8 bits above the 24 tag bits hold
\* id+1, and a word whose id field is zero decodes to -1.
C6_RigidIdRoundTrip ==
  /\ (last_call.op = "set_rigid_body_id" /\ last_call.arg \in 0..(max_num_rigid_bodies - 1)) =>
       /\ get_rigid_body_id(cell) = last_call.arg
       /\ {i \in cell : i >= tag_bits} = {i + tag_bits : i \in BitsOf(last_call.arg + 1)}
  /\ ({i \in cell : i >= tag_bits} = {}) => get_rigid_body_id(cell) = -1

\* the id was set on a word that held another id, bit 31 and tag bits
C6_Witness ==
  /\ last_call.op = "set_rigid_body_id"
  /\ last_call.arg = max_num_rigid_bodies - 1
  /\ total_bits - 1 \in last_call.before
  /\ 0 \in last_call.before
  /\ get_rigid_body_id(last_call.before) # last_call.arg

\* C7: the two fields do not disturb each other: set_rigid_body_id(id) leaves
\* get_states() unchanged, and set_states(s), for every uint32 s, leaves
\* get_rigid_body_id() unchanged and makes get_states() return the low 24 bits of s.
C7_FieldsIndependent ==
  /\ last_call.op = "set_rigid_body_id" =>
       get_states(cell) = get_states(last_call.before)
  /\ last_call.op = "set_states" =>
       /\ get_rigid_body_id(cell) = get_rigid_body_id(last_call.before)
       /\ get_states(cell) = {i \in last_call.arg : i < tag_bits}

---------------------------------------------------------------------------
(* Claims about the stencil tables and the kernel                          *)

\* C8: for every node_id the decodings of a stencil node agree: both position
\* tables hold (node_id/9, node_id/3%3, node_id%3), the weight read in the loop
\* is the product of the three per-axis weights at those offsets, and
\* kernel_linearized(node_id) is linearized_offset of the same triple.
C8_NodeDecodingsAgree ==
  (stencil.stage = "loop" /\ stencil.visited >= 0) =>
    LET n == stencil.visited
        x == n \div 9
        y == (n \div 3) % 3
        z == n % 3
    IN  /\ stencil.offset_simd = <<x, y, z, 0>>
        /\ stencil.offset_vec = <<x, y, z>>
        /\ stencil.weight =
             stencil.w_cache[0][x] * stencil.w_cache[1][y] * stencil.w_cache[2][z]
        /\ stencil.linear = linearized_offset(x, y, z)

\* the loop has visited node 5 = (0, 1, 2), whose three offsets differ
C8_Witness ==
  /\ stencil.stage = "loop"
  /\ stencil.visited = 5
  /\ stencil.weight > 0

\* the specification's per-axis weights w0 = 0.5*(0.5-f)^2, w1 = 0.75 - f^2,
\* w2 = 0.5*(0.5+f)^2 for f a numerator over PosUnit, over WeightUnit
SpecAxisWeight(f, i) ==
  CASE i = 0 -> (PosDenom - f) * (PosDenom - f)
    [] i = 1 -> 6 * PosDenom * PosDenom - 2 * f * f
    [] i = 2 -> (PosDenom + f) * (PosDenom + f)

KernelMatchesSpecWeights(shift) ==
  stencil.stage = "loop" =>
    /\ \A i, j, k \in 0..2 :
         stencil.kernels[i][j][k] =
           SpecAxisWeight(stencil.pos[1] - shift, i)
             * SpecAxisWeight(stencil.pos[2] - shift, j)
             * SpecAxisWeight(stencil.pos[3] - shift, k)
    /\ \A k \in 0..2 : stencil.w_cache[k][3] = 0

\* C9 as stated: kernels[i][j][k] = w_i(x)*w_j(y)*w_k(z) with the specification's
\* weights taken at f = p - base - 0.5, and the fourth lane of every per-axis
\* weight vector is 0.
C9_KernelMatchesSpecAtHalf == KernelMatchesSpecWeights(PosDenom)

\* C9 amended: the same with the weights taken at f = p - base - 1, the offset
\* from the middle stencil node, which lies in [-0.5, 0.5).
C9_KernelMatchesSpecAtOne == KernelMatchesSpecWeights(PosUnit)

\* the kernel was built for a particle at the low end of its range in x and the high end in z
C9_Witness ==
  /\ stencil.stage = "loop"
  /\ stencil.pos[1] = PosDenom
  /\ stencil.pos[2] # stencil.pos[1]
  /\ stencil.pos[3] = 3 * PosDenom - 1

\* C10: the 27 stencil weights sum to exactly 1, and so does each per-axis triple.
C10_PartitionOfUnity ==
  stencil.stage = "loop" =>
    /\ \A k \in 0..2 :
         stencil.w_cache[k][0] + stencil.w_cache[k][1] + stencil.w_cache[k][2] = WeightUnit
    /\ LET row(i, j) == stencil.kernels[i][j][0] + stencil.kernels[i][j][1]
                          + stencil.kernels[i][j][2]
           plane(i) == row(i, 0) + row(i, 1) + row(i, 2)
       IN  plane(0) + plane(1) + plane(2) = WeightUnit * WeightUnit * WeightUnit

\* a kernel built off the cell centre on every axis, with three non-zero weights per axis
C10_Witness ==
  /\ stencil.stage = "loop"
  /\ \A k \in 0..2 : \A l \in 0..2 : stencil.w_cache[k][l] > 0
  /\ stencil.pos[1] # stencil.pos[2]

---------------------------------------------------------------------------
(* Claims about rasterize_optimized                                        *)

\* C1: under the 8-colour schedule no two block closures that execute at the
\* same time have overlapping footprints: the cells block_base + [0, B+2)^3 one
\* closure's GridCache loads and writes back are disjoint from the footprint of
\* every other closure in flight.
C1_ConcurrentFootprintsDisjoint ==
  \A b1 \in DOMAIN cache : \A b2 \in DOMAIN cache :
    b1 # b2 => Footprint(b1) \cap Footprint(b2) = {}

\* two closures of one colour in flight at once, two blocks apart along z, one
\* still holding its scratch after its loops and one just constructed
C1_Witness ==
  \E b1 \in DOMAIN cache : \E b2 \in DOMAIN cache :
    /\ b1 # b2
    /\ b1[3] # b2[3]
    /\ pc[b1] = "processed" /\ pc[b2] = "loaded"
    /\ color > 0

RECURSIVE SumOf(_, _)
SumOf(f, S) ==
  IF S = {} THEN 0
  ELSE LET x == CHOOSE x \in S : TRUE IN f[x] + SumOf(f, S \ {x})

\* the sum of one lane of velocity_and_mass over all grid cells, plane by plane
GridLaneSum(g, lane) ==
  LET plane(x) == {c \in DOMAIN g : c[1] = x}
      cells == [c \in DOMAIN g |-> g[c][lane]]
      planes == [x \in {c[1] : c \in DOMAIN g} |-> SumOf(cells, plane(x))]
  IN  SumOf(planes, DOMAIN planes)

ParticleIds == 1..Len(particle)

\* the cell of stencil node node_id of particle p
NodeCell(p, node_id) == Add3(BaseCell(p), grid_pos_offset[node_id + 1])

\* particle and node are active for one rigid body and on opposite sides of it
OppositeSides(sc, p, node_id) ==
  /\ sc.rigid
  /\ \E r \in 0..(max_num_rigid_bodies - 1) :
       BothActiveOppositeSides(PlaneTags(NodeCell(p, node_id)[1]), p.states, r)

InRigidPage(sc, p) == Test_Page(sc, BlockOf(BaseCell(p)))

\* C2 as stated: after the phase the mass lane summed over the grid is the sum
\* of the masses of all particles.
C2_MassConserved ==
  phase = "done" =>
    GridLaneSum(grid, 4) = VMUnit * SumOf([i \in ParticleIds |-> particle[i].mass], ParticleIds)

\* the mass a particle leaves on the grid: all of it from a block run by
\* block_op_normal; from a block run by block_op_rigid nothing for a rigid
\* particle and otherwise the weights of the nodes that are not cut off
MassReachingGrid(sc, p) ==
  IF ~InRigidPage(sc, p) THEN p.mass * VMUnit
  ELSE IF p.is_rigid THEN 0
  ELSE LET kept == {n \in 0..(num_nodes - 1) : ~OppositeSides(sc, p, n)}
       IN  p.mass * PosUnit * PosUnit
             * SumOf([n \in kept |-> Kernel_weight(p, n)], kept)

\* C2: after the phase, in every order of the blocks, the mass lane summed over
\* the grid is the sum over the particles of the mass each leaves on the grid:
\* the whole mass of a particle of a block without rigid tags, and in a block of
\* rigid_page_map none of a rigid particle's and the share of the nodes not cut
\* off from the particle; no write-back of another block loses any of it.
C2_MassReachingGridConserved ==
  phase = "done" =>
    GridLaneSum(grid, 4)
      = SumOf([i \in ParticleIds |-> MassReachingGrid(scene, particle[i])], ParticleIds)

\* a particle lost mass at a rigid plate, and mass lies on a cell two blocks cover
C2_Witness ==
  /\ phase = "done"
  /\ \E i \in ParticleIds :
       /\ MassReachingGrid(scene, particle[i]) > 0
       /\ MassReachingGrid(scene, particle[i]) < particle[i].mass * VMUnit
  /\ \E c \in DOMAIN grid : \E b1 \in DOMAIN pc : \E b2 \in DOMAIN pc :
       b1 # b2 /\ c \in Footprint(b1) \cap Footprint(b2) /\ grid[c][4] > 0

FreeSpace ==
  /\ ~scene.rigid
  /\ scene.gravity = Zero3
  /\ \A i \in ParticleIds : particle[i].force = ZeroMatrix

\* C3: with no forces, no rigid bodies and no gravity, after the phase each
\* momentum lane summed over the grid is the sum over the particles of mass *
\* velocity, whatever apic_b and apic_c the particles carry.
C3_MomentumConserved ==
  (phase = "done" /\ FreeSpace) =>
    \A lane \in 1..3 :
      GridLaneSum(grid, lane)
        = VMUnit * SumOf([i \in ParticleIds |-> particle[i].mass * particle[i].velocity[lane]],
                         ParticleIds)

C3_Witness ==
  /\ phase = "done"
  /\ FreeSpace
  /\ \E i \in ParticleIds : particle[i].apic_b # ZeroMatrix
  /\ \E i \in ParticleIds : particle[i].apic_c # ZeroMatrix /\ particle[i].velocity # Zero3
  /\ \E i \in ParticleIds : \E j \in ParticleIds :
       BlockOf(BaseCell(particle[i])) # BlockOf(BaseCell(particle[j]))

\* what the claim asks of a particle (index i, 1-based) and a node cut off from it
CutNodeHandled(i, n) ==
  LET p == particle[i]
      id == PlaneRigidId(NodeCell(p, n)[1])
      mine == {rec \in BagToSet(impulses) : rec.particle = i - 1 /\ rec.node = n}
  IN  /\ <<i - 1, n>> \notin writes
      /\ IF id \in Rigids(scene)
         THEN /\ {<<rec.rigid, rec.at>> : rec \in mine} = {<<id, NodeCell(p, n)>>}
              /\ Cardinality(mine) = 1
              /\ \A rec \in mine : CopiesIn(rec, impulses) = 1
         ELSE mine = {}

---------------------------------------------------------------------------
(* Claims about the two block kernels of rasterize_optimized               *)

ParticlesOfBlock(block) == {i \in ParticleIds : BlockOf(BaseCell(particle[i])) = block}

\* the cells of the block and its particles that are not rigid carry no side tags
NoSideTags(block) ==
  /\ ~Test_Page(scene, block)
  /\ \A i \in ParticlesOfBlock(block) : ~particle[i].is_rigid => particle[i].states = {}

\* C27: for a block whose cells and non-rigid particles all carry zero side
\* tags, block_op_rigid and block_op_normal leave the same velocity_and_mass in
\* every cell of the block's scratch, so the grid's momentum and mass do not
\* depend on whether rigid_page_map marks the block.
C27_KernelsAgree ==
  \A b \in DOMAIN cache :
    (pc[b] = "done" /\ phase = "kernels" /\ NoSideTags(b)) =>
      cache[b].block_op_rigid = cache[b].block_op_normal

---------------------------------------------------------------------------
(* Claims about the scratch indices                                        *)

\* C11: for every cell index t of a block and every node_id, the index
\* kernel_linearized(node_id) + spgrid_block_to_grid_cache_block(t) lies in
\* [0, scratch_size), addresses the scratch cell at (cell coordinates of t) +
\* (node_id/9, node_id/3%3, node_id%3), and that scratch cell holds the grid cell
\* at block_base + that coordinate, as the GridCache constructor loaded it.
C11_StencilAccessInsideScratch ==
  stencil.stage = "access" =>
    LET n == stencil.node_id
        coord == Add3(spgrid_block_linear_to_vector(stencil.t),
                      <<n \div 9, (n \div 3) % 3, n % 3>>)
    IN  /\ stencil.index \in 0..(scratch_size - 1)
        /\ stencil.index = coord[1] * scratch_y_size * scratch_z_size
                             + coord[2] * scratch_z_size + coord[3]
        /\ coord[1] < scratch_x_size /\ coord[2] < scratch_y_size /\ coord[3] < scratch_z_size
        /\ stencil.element = GridLabel(Add3(LinearToCoord(stencil.block), coord))

\* the last node of the last cell of a block that is not the first: the far
\* corner of the scratch
C11_Witness ==
  /\ stencil.stage = "access"
  /\ stencil.t = elements_per_block - 1
  /\ stencil.node_id = num_nodes - 1
  /\ stencil.index = scratch_size - 1
  /\ stencil.block # <<0, 0, 0>>
  /\ stencil.element = GridLabel(Add3(LinearToCoord(stencil.block),
                                      <<scratch_x_size - 1, scratch_y_size - 1,
                                        scratch_z_size - 1>>))

---------------------------------------------------------------------------
(* Claims about friction_project                                           *)

\* two fractions of vectors are the same vector
SameVector(a, b) == Scale3(b.den, a.num) = Scale3(a.den, b.num)

\* the definition of the specification, on the fractions of the model: with
\* rel = v - v_base, vn = rel.n, v_t = rel - vn * n, the value
\* s * v_t + max(0, vn) * n * [not slip] + v_base, s = max(|v_t| + min(vn, 0) * mu, 0) / max(|v_t|, eps)
SpecFrictionProject(v, v_base, n, mu0) ==
  IF mu0.n = -mu0.d THEN [num |-> v_base, den |-> 1]
  ELSE
    LET slip == mu0.n * 1 <= -2 * mu0.d
        mu == IF slip THEN [n |-> -mu0.n - 2 * mu0.d, d |-> mu0.d] ELSE mu0
        rel == <<v[1] - v_base[1], v[2] - v_base[2], v[3] - v_base[3]>>
        vn == Dot3(rel, n.n)                                        \* over n.d
        v_n == Scale3(vn, n.n)                                      \* over n.d^2
        v_t == <<n.d * n.d * rel[1] - v_n[1], n.d * n.d * rel[2] - v_n[2],
                 n.d * n.d * rel[3] - v_n[3]>>                      \* over n.d^2
        len == SqrtFloor(Dot3(v_t, v_t))                            \* over n.d^2
        \* s = top / (mu.d * len) where len > 0
        top == Max(len * mu.d + Min(vn, 0) * mu.n * n.d, 0)
        keep == IF slip THEN 0 ELSE 1
    IN  IF len = 0
        THEN [num |-> Add3(Scale3(Max(0, vn) * keep, n.n), Scale3(n.d * n.d, v_base)),
              den |-> n.d * n.d]
        ELSE [num |-> Add3(Scale3(top, v_t),
                      Add3(Scale3(Max(0, vn) * keep * mu.d * len, n.n),
                           Scale3(mu.d * len * n.d * n.d, v_base))),
              den |-> mu.d * len * n.d * n.d]

\* C12: friction_project(v, v_base, n, mu) is the value the specification
\* defines, for every sampled input with a unit normal: v_base when mu = -1, and
\* otherwise s * v_t + max(0, vn) * n * [not slip] + v_base with slip = (mu <= -2)
\* and mu replaced by -mu - 2 when slip.
C12_FrictionProjectMatchesSpec ==
  fcall.stage = "returned" =>
    /\ fcall.result.den > 0
    /\ SameVector(fcall.result,
                  SpecFrictionProject(fcall.velocity, fcall.base_velocity,
                                      fcall.normal, fcall.friction))

\* a call at mu = -2 exactly, moving away from the surface with a tangential part
C12_Witness ==
  /\ fcall.stage = "returned"
  /\ fcall.friction = [n |-> -2, d |-> 1]
  /\ fcall.normal.d > 1
  /\ Dot3(fcall.normal.n, Add3(fcall.velocity, Scale3(-1, fcall.base_velocity))) > 0
  /\ fcall.result.den > fcall.normal.d * fcall.normal.d

FrictionlessApproach ==
  /\ fcall.stage = "returned"
  /\ fcall.friction.n = 0
  /\ Dot3(fcall.normal.n, Add3(fcall.velocity, Scale3(-1, fcall.base_velocity))) < 0

\* v - (rel.n) * n as a fraction over n.d^2
WithoutNormalPart(v, v_base, n) ==
  LET rel == Add3(v, Scale3(-1, v_base))
  IN  [num |-> Add3(Scale3(n.d * n.d, v), Scale3(-Dot3(rel, n.n), n.n)), den |-> n.d * n.d]

\* C13 as stated: with mu = 0 and rel.n < 0 the result is v - (rel.n) * n + v_base.
C13_FrictionlessPlusBase ==
  FrictionlessApproach =>
    LET w == WithoutNormalPart(fcall.velocity, fcall.base_velocity, fcall.normal)
    IN  SameVector(fcall.result,
                   [num |-> Add3(w.num, Scale3(w.den, fcall.base_velocity)), den |-> w.den])

\* C13: with mu = 0 and the relative velocity rel = v - v_base pointing into the
\* surface (rel.n < 0), the result is v - (rel.n) * n, that is
\* rel - (rel.n) * n + v_base: the velocity with the normal part of the relative
\* velocity removed, for every v, v_base and unit normal n.
C13_FrictionlessRemovesNormalPart ==
  FrictionlessApproach =>
    SameVector(fcall.result,
               WithoutNormalPart(fcall.velocity, fcall.base_velocity, fcall.normal))

\* such a call with a moving base and a tangential part left
C13_Witness ==
  /\ FrictionlessApproach
  /\ fcall.base_velocity # Zero3
  /\ fcall.normal.d > 1
  /\ ~SameVector(fcall.result, [num |-> fcall.base_velocity, den |-> 1])
  /\ ~SameVector(fcall.result, [num |-> fcall.velocity, den |-> 1])

---------------------------------------------------------------------------
(* Claims about the relabelling of a rigid body's sides                    *)

\* the two copies agree: the particles up to the swapped side bits, the grid
\* and the bag of apply_tmp_impulse calls with the friction coefficient of each
CopiesAgree ==
  /\ RelabelParticles(twin.particle, twin.r) = particle
  /\ twin.grid = grid
  /\ twin.impulses = impulses

---------------------------------------------------------------------------
(* Claims about resample_optimized                                         *)

\* the cells (block, t) whose range [particle_begin, particle_end) holds index k
RangesHolding(k) ==
  {bt \in Blocks(lattice) \X (0..(elements_per_block - 1)) :
     /\ ParticleEnd(lattice, sorted, bt[1], bt[2]) <= k
     /\ k < ParticleEnd(lattice, sorted, bt[1], bt[2] + 1)}

\* C15 as stated, for resample_optimized: the per-cell ranges of all cells of
\* all live blocks are pairwise disjoint and cover every particle, and after
\* the phase every non-rigid particle has had its apic_b, its apic_c and its
\* velocity rebuilt from the gather once, plasticity applied once and its
\* position advanced once.
C15_EachParticleResampledOnce ==
  (sorted # <<>> /\ phase = "done") =>
    \A i \in 1..Len(particle) :
      /\ Cardinality(RangesHolding(i - 1)) = 1
      /\ ~particle[i].is_rigid =>
            /\ particle[i].apic_b_writes = 1
            /\ particle[i].apic_c_writes = 1
            /\ particle[i].velocity_writes = 1
            /\ particle[i].plasticity_calls = 1
            /\ particle[i].advances = 1

---------------------------------------------------------------------------
(* Claims about the impulse protocol of the four transfers                 *)

\* C16: in rasterize, rasterize_optimized, resample and resample_optimized
\* every rigid body is reset before a closure of the phase starts, receives
\* no impulse before its reset or after its flush (every impulse of the phase
\* is held between the two), and is flushed exactly once, only when all
\* closures of the phase have finished.
C16_ImpulseProtocolOrdered ==
  /\ (\E b \in DOMAIN pc : pc[b] # "idle") => \A r \in DOMAIN rigids : rigids[r].resets = 1
  /\ \A r \in DOMAIN rigids :
       /\ rigids[r].resets <= 1
       /\ rigids[r].flushes <= 1
       /\ rigids[r].early = 0
       /\ rigids[r].late = 0
       /\ rigids[r].pending = ImpulsesTo(impulses, r)
       /\ rigids[r].flushes = 1 => \A b \in DOMAIN pc : pc[b] = "done"
       /\ phase = "done" => rigids[r].flushes = 1

\* a rasterize has finished whose closures handed impulses to a rigid body
C16_Witness ==
  /\ Transfer = "rasterize"
  /\ phase = "done"
  /\ \E r \in DOMAIN rigids : rigids[r].pending > 0 /\ rigids[r].flushes = 1

\* C19 as stated: after resample_optimized, a non-rigid particle near a
\* boundary has apic_b and apic_c zero, and any other non-rigid particle has
\* apic_b = damp_affine_momemtum(B) and apic_c = damp_affine_momemtum(C) for
\* the sums B and C its own gather accumulated, whichever block kernel ran it.
C19_AffineCarriersDamped ==
  (sorted # <<>> /\ phase = "done") =>
    \A i \in 1..Len(particle) :
      ~particle[i].is_rigid =>
        IF particle[i].near_boundary
        THEN /\ particle[i].apic_b = Undamped(ZeroMatrix)
             /\ particle[i].apic_c = Undamped(ZeroMatrix)
        ELSE /\ particle[i].apic_b = damp_affine_momemtum(particle[i].gathered.b)
             /\ particle[i].apic_c = damp_affine_momemtum(particle[i].gathered.c)

\* the position lies in the grid: every component in [0, res * delta_x - eps]
InsideGrid(pos) ==
  \A k \in 1..3 : 0 <= pos.num[k] /\ pos.num[k] <= res(lattice)[k] * pos.den - eps

\* C20 as stated: after every resample phase, by resample or by either block
\* kernel of resample_optimized, every component of every particle's position
\* lies in [0, res * delta_x - eps].
C20_PositionsClamped ==
  ("damping" \in DOMAIN scene /\ phase = "done") =>
    \A i \in 1..Len(particle) : InsideGrid(particle[i].pos)

---------------------------------------------------------------------------
(* Claims about the GridCache                                              *)

\* the fields of a GridState other than velocity_and_mass
OtherFields(g) ==
  <<g.distance, g.states, g.particle_count, g.lock, g.flags, g.granular_fluidity,
    g.aux0, g.aux1, g.aux2, g.aux3>>

\* the blocks whose cache has been destroyed and whose footprint holds cell c
DestroyedOver(c) == {b \in DOMAIN pc : pc[b] = "done" /\ InScratch(b, c)}

\* C23: a grid cell differs from what it was before the phase only if a cache
\* with write_back = true whose footprint holds it has been destroyed; in
\* resample_optimized (write_back = false in both kernels) every field of
\* every cell is as before the phase; and a cell that only caches of the
\* v_and_m_only variant wrote back to has changed in velocity_and_mass at
\* most: states, distance, particle_count, lock, flags and the auxiliary
\* scalars are as before.
C23_GridCacheFrame ==
  \A rigid_page_map \in {{b \in DOMAIN pc : Test_Page(scene, b)}} :
    \A c \in DOMAIN grid :
      /\ phase = "resample_optimized" => grid[c] = GridStateAt(scene, c)
      /\ DestroyedOver(c) = {} => grid[c] = GridStateAt(scene, c)
      /\ DestroyedOver(c) \cap rigid_page_map = {}
           => OtherFields(grid[c]) = OtherFields(GridStateAt(scene, c))

\* a cache of the v_and_m_only variant has written a changed velocity_and_mass
\* back to a cell that carries rigid tags
C23_Witness ==
  /\ phase = "rasterize_optimized"
  /\ \E b \in DOMAIN pc : \E c \in Footprint(b) :
       /\ pc[b] = "done" /\ ~Test_Page(scene, b)
       /\ b \in DestroyedOver(c)
       /\ grid[c].velocity_and_mass # GridLabel(c)
       /\ grid[c].states # {}

---------------------------------------------------------------------------
(* Claims about get_stencil_start                                          *)

\* C22 as stated: for every grid-unit coordinate x in [0, res),
\* get_stencil_start(x) is floor(x - 0.5).
C22_StencilStartIsFloor ==
  stencil.stage = "start" =>
    /\ stencil.start * PosUnit <= stencil.x - PosDenom
    /\ stencil.x - PosDenom < (stencil.start + 1) * PosUnit

---------------------------------------------------------------------------
(* Claims about the penalty step of resample                               *)

\* -0.3 * delta_x < boundary_distance < -0.05 * delta_x
InPenaltyBand(p) ==
  /\ 20 * p.boundary_distance < -1 * DistUnit
  /\ 10 * p.boundary_distance > -3 * DistUnit

\* the impulses the penalty step of particle i (1-based) handed to rigid bodies
PenaltyImpulses(i) ==
  {rec \in BagToSet(impulses) : rec.particle = i - 1 /\ rec.node = -1}

\* C21 as stated: after a resample, by resample or by either block kernel of
\* resample_optimized, every non-rigid particle with boundary_distance in the
\* open interval (-0.3 * delta_x, -0.05 * delta_x) has the velocity it
\* gathered less boundary_distance * boundary_normal * penalty, and if its
\* stencil loop identified a rigid body that body received that vector times
\* the particle's mass, once, so that the two momentum changes sum to zero;
\* a particle outside the interval keeps the gathered velocity and hands no
\* impulse to a rigid body.
C21_PenaltyApplied ==
  ("damping" \in DOMAIN scene /\ phase = "done") =>
    \A i \in 1..Len(particle) :
      ~particle[i].is_rigid =>
        LET p == particle[i]
            mine == PenaltyImpulses(i)
        IN  IF InPenaltyBand(p)
            THEN /\ p.velocity.num =
                      Add3(p.gathered.v, Scale3(-p.velocity.den, delta_velocity(p)))
                 /\ IF p.rigid_id # -1
                    THEN /\ Cardinality(mine) = 1
                         /\ \A rec \in mine :
                              /\ CopiesIn(rec, impulses) = 1
                              /\ rec.rigid = p.rigid_id
                              /\ Add3(Scale3(p.mass * p.velocity.den, rec.impulse),
                                      Scale3(p.mass * p.mass,
                                             Add3(p.velocity.num, Scale3(-1, p.gathered.v))))
                                   = Zero3
                    ELSE mine = {}
            ELSE /\ p.velocity.num = p.gathered.v
                 /\ mine = {}

\* the stencil nodes of particle p, at the position the phase found it at,
\* that the coloring test cuts off
CutNodesOf(p) ==
  {n \in 0..(num_nodes - 1) :
     IsCut(get_states(GridWord(scene, NodeCell([pos |-> p.start], n))), p.states)}

\* C26: in resample and in the rigid-aware kernel of resample_optimized,
\* rigid_id differs from -1 only if a stencil node of the particle was found
\* cut and get_rigid_body_ptr of that node's rigid id was not null, so the
\* penalty step, which calls get_rigid_body_ptr(rigid_id) and uses the result
\* unchecked, always gets a rigid body that exists.
C26_PenaltyRigidExists ==
  "damping" \in DOMAIN scene =>
    \A i \in 1..Len(particle) :
      LET p == particle[i]
      IN  /\ p.rigid_id # -1 =>
               /\ get_rigid_body_ptr(scene, p.rigid_id) # -1
               /\ \E n \in CutNodesOf(p) :
                    LET w == GridWord(scene, NodeCell([pos |-> p.start], n))
                    IN  /\ get_rigid_body_id(w) = p.rigid_id
                        /\ get_rigid_body_ptr(scene, get_rigid_body_id(w)) # -1
          /\ \A rec \in PenaltyImpulses(i) :
               /\ rec.rigid = p.rigid_id
               /\ get_rigid_body_ptr(scene, rec.rigid) \in DOMAIN rigids

\* the penalty step has handed an impulse to the body a particle identified,
\* and a cut node of that particle carries an id that names no rigid body
C26_Witness ==
  /\ "damping" \in DOMAIN scene
  /\ \E i \in 1..Len(particle) :
       /\ particle[i].rigid_id # -1
       /\ PenaltyImpulses(i) # {}
       /\ \E n \in CutNodesOf(particle[i]) :
            get_rigid_body_ptr(scene, get_rigid_body_id(
              GridWord(scene, NodeCell([pos |-> particle[i].start], n)))) = -1

---------------------------------------------------------------------------
(* Claims about plasticity_counter                                         *)

\* the sum of the values the plasticity calls of the phase returned
PlasticityReturned ==
  SumOf([i \in ParticleIds |-> particle[i].plasticity_returned], ParticleIds)

\* C28: after a resample phase plasticity_counter has grown by the sum of the
\* values the plasticity calls of the phase returned, whichever block kernel
\* ran a particle and in whatever order the blocks ran.
C28_CounterIsSumOfReturns ==
  (Transfer \in {"resample", "resample_optimized"} /\ phase = "done") =>
    plasticity_counter = PlasticityReturned

---------------------------------------------------------------------------
(* Claims about the material classes                                       *)

UpdatedDensity(q, cdg) == IeeeDiv(FDiv(q.mass, q.vol), determinant(DMul(cdg, q.dg_t)))

DisconnectedByDensity ==
  /\ material.particle.class = "nonlocal"
  /\ material.last.op = "plasticity"
  /\ UpdatedDensity(material.last.before, material.last.cdg) < material.particle.par.rho_c

\* C18: NonlocalParticle::plasticity in the disconnected state: whenever the
\* updated density rho = mass / vol / det(dg_t) is below rho_c, the call ends
\* with T the zero matrix, p = 0, dg_p = dg_t and
\* gf = max(0, gamma_dot_equ / mu_2), whatever gf, tau and laplacian_gf were,
\* and tau is as it was before the call.
C18_DisconnectedState ==
  DisconnectedByDensity =>
    /\ material.particle.dg_t = DMul(material.last.cdg, material.last.before.dg_t)
    /\ material.particle.T = Diag(0)
    /\ material.particle.p = 0
    /\ material.particle.dg_p = material.particle.dg_t
    /\ material.particle.gf =
         Max(0, FDiv(kinematics(material.last.cdg, material.particle.par.delta_t),
                     material.particle.par.mu_2))
    /\ material.particle.tau = material.last.before.tau

C18_Witness ==
  /\ DisconnectedByDensity
  /\ material.last.before.gf > 0
  /\ material.last.before.tau > 0
  /\ material.last.laplacian_gf > 0
  /\ NonlocalTrial(material.last.before, material.last.cdg).p > 0
  /\ material.particle.gf > 0
  /\ material.particle.gf # material.last.before.gf

\* C24 as stated: a WaterParticle has j >= 0.1 after initialize and after
\* every plasticity call; a call leaves j = max(0.1, j * (trace(cdg) - (dim - 1)))
\* for the j before it, and returns 1 exactly when the resulting j is greater
\* than 1 and 0 otherwise.
C24_WaterClamped ==
  material.particle.class = "water" =>
    /\ ~IeeeLess(material.particle.j, Real(1, 10)) /\ ~isnan(material.particle.j)
    /\ material.last.op = "plasticity" =>
         LET cdg == material.last.cdg
             product == IeeeMul(material.last.before.j,
                                IeeeAdd(IeeeAdd(IeeeAdd(cdg[1], cdg[2]), cdg[3]),
                                        -2 * RealUnit))
         IN  /\ material.particle.j = Max(Real(1, 10), product)
             /\ material.last.ret = (IF IeeeLess(RealUnit, material.particle.j) THEN 1 ELSE 0)

\* the product of the entries of a diagonal, as the loop of
\* SnowParticle::plasticity accumulates it
DetOf(sig) == IeeeMul(IeeeMul(IeeeMul(RealUnit, sig[1]), sig[2]), sig[3])

\* C25: after every plasticity call of a SnowParticle (min_Jp <= max_Jp), Jp
\* lies in [min_Jp, max_Jp], also when the computed Jp_new is NaN or infinite;
\* every singular value of dg_e lies in [1 - theta_c, 1 + theta_s]; and Jp_new
\* is the old Jp times the product of the unclamped singular values over the
\* product of the clamped ones.
C25_SnowClamped ==
  (material.particle.class = "snow" /\ material.last.op = "plasticity") =>
    LET q == material.particle
        sig == svd(q.dg_e).sig
    IN  /\ q.par.min_Jp <= q.par.max_Jp
        /\ isfinite(q.Jp) /\ q.par.min_Jp <= q.Jp /\ q.Jp <= q.par.max_Jp
        /\ \A i \in 1..3 :
             /\ isfinite(sig[i])
             /\ RealUnit - q.par.theta_c <= sig[i] /\ sig[i] <= RealUnit + q.par.theta_s
        /\ material.last.Jp_new =
             IeeeDiv(IeeeMul(material.last.before.Jp, DetOf(material.last.unclamped)),
                     DetOf(sig))
        /\ isfinite(material.last.Jp_new) =>
             q.Jp = Max(q.par.min_Jp, Min(q.par.max_Jp, material.last.Jp_new))

\* a call whose Jp_new was NaN, after a call whose Jp_new was infinite
C25_Witness ==
  /\ material.particle.class = "snow"
  /\ material.last.op = "plasticity"
  /\ isnan(material.last.Jp_new)
  /\ material.particle.Jp = material.particle.par.max_Jp
  /\ material.last.before.Jp = material.particle.par.max_Jp

---------------------------------------------------------------------------
(* Claims about NonlocalParticle::plasticity                               *)

NonlocalCalled ==
  material.particle.class = "nonlocal" /\ material.last.op = "plasticity"

\* the trial state of the last call, and whether the call took the else branch of
\* if (rho < rho_c || this->p <= 0.0_f)
LastTrial == NonlocalTrial(material.last.before, material.last.cdg)

TookDense ==
  /\ NonlocalCalled
  /\ ~(IeeeLess(LastTrial.rho, material.particle.par.rho_c) \/ IeeeLeq(LastTrial.p, 0))

LastTauTrial ==
  NonlocalDenseTrial(material.last.before, material.last.cdg, material.last.laplacian_gf,
                     LastTrial).tau_trial

\* the three parts of the statement
FluidityNotNegative == NonlocalCalled => IeeeLeq(0, material.particle.gf)

TauWithinTrial ==
  TookDense => /\ IeeeLeq(0, material.particle.tau)
               /\ IeeeLeq(material.particle.tau, LastTauTrial)

FluidityOverwritten ==
  (TookDense /\ material.last.before.p = 0) =>
    material.particle.gf =
      Max(0, FDiv(kinematics(material.last.cdg, material.particle.par.delta_t),
                  material.particle.par.mu_2))

\* C30: NonlocalParticle: after every plasticity call gf >= 0; after every call
\* that takes the dense branch 0 <= tau <= tau_trial, with tau_trial the trial
\* shear stress of that call; and when the dense branch is entered with the
\* previous pressure p_n == 0 the final gf is max(0, gamma_dot_equ / mu_2).
C30_NonlocalBounds ==
  FluidityNotNegative /\ TauWithinTrial /\ FluidityOverwritten


---------------------------------------------------------------------------
(* Claims about ViscoParticle::approximate_exponent                        *)

\* C29: approximate_exponent(dt, m) terminates for every input: halving dt
\* reaches a positive determinant after finitely many halvings, also when the
\* deformation increment plasticity passes has NaN or infinite entries.
C29_ApproximateExponentReturns == <>(material.last.stage = "returned")

====
